---- MODULE Spec2Model ----
(***************************************************************************)
(* Model of the literature-review command-line utilities: the BibTeX       *)
(* field extractors, the text cleaner, the DOI normalizers and the DOI     *)
(* overlap computation.  Strings are TLA+ strings handled character by     *)
(* character (SubSeq / Len / \o), so that the regular expressions and      *)
(* the slices of the Python sources are computed as the code computes      *)
(* them.                                                                   *)
(***************************************************************************)
EXTENDS Integers, Sequences, FiniteSets, TLC

VARIABLES
    \* ---- clean_text harness
    ct_tool,            \* which script's clean_text is called
    ct_text,            \* the argument
    ct_out,             \* the returned value
    ct_pc,              \* "call" before the call, "ret" after
    \* ---- DOI normalizer harness
    dn_in,              \* the raw DOI string
    dn_trace,           \* the calls made so far: <<[op, arg, val]>>
    \* ---- doi_overlap.main
    ov_lines,           \* the lines of the DOI file
    ov_fields,          \* the doi field of each BibTeX entry that has one
    doi_list,           \* set built by extract_dois_from_file
    bibtex_dois,        \* set built by extract_dois_from_bibtex
    overlapping_dois,
    missing_dois,
    overlap_percentage, \* <<numerator, denominator>>, an exact fraction
    missing_percentage, \* the value of 100 - overlap_percentage, likewise
    ov_pc,
    \* ---- the BibTeX parsers
    p_tool,             \* the script that is run
    p_src,              \* the bibliography: entries and stray lines, as written
    doi_filter,         \* short_description_and_category: the DOI filter set
    p_items,            \* the list a for loop walks: split blocks or entry dicts
    p_pos,              \* lines (or list items) consumed so far
    in_entry,
    current_entry,
    p_out,              \* entries / documents / papers / csv_data
    p_pc,
    \* ---- tf_idf.calculate_tfidf: the vocabulary
    tv_docs,            \* documents: a sequence of [content |-> text]
    min_df,
    max_df_ratio,       \* the float given as --max-df
    tokenized_docs,
    word_doc_count,
    vocabulary,
    tv_pc,
    \* ---- topic_frequency.analyze_topic_frequency
    tp_lines,           \* the lines of the topics file
    topics,
    tp_entries,         \* the entries given to analyze_topic_frequency
    case_sensitive,
    topic_frequency,
    topic_entries,
    tp_e,               \* entries done by the outer loop
    tp_t,               \* topics done by the inner loop for the current entry
    tp_pc,
    \* ---- check_dois_valid.main
    cv_file,            \* the DOI file: its lines, or why it cannot be read
    cv_out_ok,          \* whether the output file can be opened for writing
    concurrent,         \* --concurrent
    cv_dois,            \* dois: the cleaned lines of the DOI file
    futures,            \* per submitted call: its state and its result
    cv_in_flight,       \* the requests sent and not yet answered
    cv_issued,          \* the requests in the order they were sent
    cv_completed,       \* the calls in the order they returned
    cv_sleeps,          \* time.sleep calls so far
    results,
    valid_count,
    invalid_count,
    cv_csv,             \* the rows written to the output file
    cv_summary,         \* the percentages printed: <<valid, invalid>> fractions
    cv_exit,            \* "running", the exit status, or "traceback"
    cv_pc,
    \* ---- one call of check_doi or find_doi on one response
    rs_fn,
    rs_resp,
    rs_out,             \* the value returned or the exception raised
    rs_pc,
    \* ---- find_dois.main and subject_vibe.main
    bt_tool,
    bt_file,            \* the input file: its state and what it holds
    bt_out_ok,          \* can args.output be opened for writing
    bt_delay,           \* args.delay of subject_vibe
    bt_items,           \* titles / papers
    bt_in_flight,       \* positions whose request is sent and not answered
    bt_issued,          \* positions in the order their requests are sent
    bt_sleeps,          \* calls of time.sleep that returned
    bt_rows,            \* rows written / results appended
    bt_counts,          \* success_count, not_found_count, error_count
    bt_saved,           \* the CSV file is complete on disk
    bt_console,         \* what has been printed
    bt_exit,            \* "running", the exit status, or "traceback"
    bt_pc,
    \* ---- the main function of a tool
    tl_tool,
    tl_input,           \* the input file: "missing", "undecodable" or "ok"
    tl_found,           \* how many items the input holds
    tl_hits,            \* how many of them count in the report
    tl_second,          \* the size of a second collection, where there is one
    tl_output,          \* "none" (no -o), "writable" or "unwritable"
    tl_trace,           \* what the program has printed and written, in order
    tl_percent,         \* the percentages computed
    tl_exit,            \* "running", the exit status, or the uncaught exception
    tl_pc,
    \* ---- the builders of DOI sets and set_of_dois.main
    ds_tool,            \* which builder runs
    ds_left,            \* how many files main has still to process
    ds_file,            \* the lines or doi fields of the file read last
    ds_dois,            \* the set the builder returned for it
    all_dois,
    file_doi_counts,    \* the values of the dict, in the order of the files
    ds_seen,            \* every line or doi field read so far
    ds_occurrences,     \* how many of them carried a DOI
    total_dois_with_duplicates,
    duplicate_count,
    ds_pc,
    \* ---- springer_crawl.SpringerCrawler.crawl_pages
    sc_base,            \* the pagination style of the base URL
    max_pages,
    sc_delay,           \* --delay: negative, zero or positive
    page_num,
    sc_requested,       \* the URLs requested, in order
    sc_fetched,         \* what parse_rss_feed returned for each of them
    all_papers,
    sc_sleeps,          \* how many times the loop has slept
    sc_result,          \* <<>> while running, then what crawl_pages returned
    sc_pc,
    \* ---- the field pattern of the regex parsers, applied to one field
    fs_tool,            \* whose search it is
    fs_written,         \* the field name and the "=" as written
    fs_opener,
    fs_value,           \* what the file holds between the delimiters
    fs_closer,
    fs_match,           \* <<group 1>> of the match, <<>> for none
    fs_pc,
    \* ---- tf_idf.calculate_idf and the display order of topic_frequency
    idf,                \* the dict calculate_idf returns, or its exception
    topic_order,        \* the keys of topic_frequency in insertion order
    sorted_topics       \* the (topic, count) pairs main lists

ct_vars == <<ct_tool, ct_text, ct_out, ct_pc>>
dn_vars == <<dn_in, dn_trace>>
ov_vars == <<ov_lines, ov_fields, doi_list, bibtex_dois, overlapping_dois,
             missing_dois, overlap_percentage, missing_percentage, ov_pc>>
p_vars == <<p_tool, p_src, doi_filter, p_items, p_pos, in_entry, current_entry,
            p_out, p_pc>>
tv_vars == <<tv_docs, min_df, max_df_ratio, tokenized_docs, word_doc_count,
             vocabulary, tv_pc, idf>>
\* the variables of the analyses that follow the parsers
tp_vars == <<tp_lines, topics, tp_entries, case_sensitive, topic_frequency,
             topic_entries, tp_e, tp_t, tp_pc, topic_order, sorted_topics>>
cv_vars == <<cv_file, cv_out_ok, concurrent, cv_dois, futures,
             cv_in_flight,
             cv_issued, cv_completed, cv_sleeps, results, valid_count,
             invalid_count, cv_csv, cv_summary, cv_exit, cv_pc>>
rs_vars == <<rs_fn, rs_resp, rs_out, rs_pc>>
bt_vars == <<bt_tool, bt_file, bt_out_ok, bt_delay, bt_items, bt_in_flight,
             bt_issued, bt_sleeps, bt_rows, bt_counts, bt_saved, bt_console,
             bt_exit, bt_pc>>
tl_vars == <<tl_tool, tl_input, tl_found, tl_hits, tl_second, tl_output,
             tl_trace, tl_percent, tl_exit, tl_pc>>
ds_vars == <<ds_tool, ds_left, ds_file, ds_dois, all_dois, file_doi_counts,
             ds_seen, ds_occurrences, total_dois_with_duplicates,
             duplicate_count, ds_pc>>
sc_vars == <<sc_base, max_pages, sc_delay, page_num, sc_requested, sc_fetched,
             all_papers, sc_sleeps, sc_result, sc_pc>>
fs_vars == <<fs_tool, fs_written, fs_opener, fs_value, fs_closer, fs_match,
             fs_pc>>
late_vars == <<ds_vars, sc_vars, fs_vars>>
more_vars == <<tv_vars, tp_vars, cv_vars, rs_vars, bt_vars, tl_vars, late_vars>>
vars == <<ct_vars, dn_vars, ov_vars, p_vars, more_vars>>

(***************************************************************************)
(* Python string primitives                                                *)
(***************************************************************************)
LowerChars == "abcdefghijklmnopqrstuvwxyz"
UpperChars == "ABCDEFGHIJKLMNOPQRSTUVWXYZ"
DigitChars == "0123456789"
\* string.punctuation (without the backquote, which a TLA+ string cannot hold
\* and no modelled input contains)
PunctChars == "!\"#$%&'()*+,-./:;<=>?@[\\]^_{|}~"

Ch(s, i) == SubSeq(s, i, i)
CharsOf(s) == {Ch(s, i) : i \in 1..Len(s)}

Lowers == CharsOf(LowerChars)
Uppers == CharsOf(UpperChars)
Letters == Lowers \cup Uppers                     \* [a-zA-Z]
WordChars == Letters \cup CharsOf(DigitChars) \cup {"_"}   \* \w
Whitespace == {" ", "\t", "\n", "\r"}             \* \s, str.split(), str.strip()
Punctuation == CharsOf(PunctChars)

\* s[n:]
Slice(s, n) == IF n >= Len(s) THEN "" ELSE SubSeq(s, n + 1, Len(s))
\* s[a:b] with 1-based inclusive bounds, empty when b < a
Sub(s, a, b) == IF b < a THEN "" ELSE SubSeq(s, a, b)
\* s.startswith(p)
StartsWith(s, p) == Len(s) >= Len(p) /\ Sub(s, 1, Len(p)) = p

\* the lower-case letter of every upper-case letter
LowerOf ==
    [c \in Uppers |->
        LET i == CHOOSE k \in 1..Len(UpperChars) : Ch(UpperChars, k) = c
        IN Ch(LowerChars, i)]

\* c.lower() for one character
LowerCh(c) == IF c \in Uppers THEN LowerOf[c] ELSE c

RECURSIVE LowerStr(_)
\* s.lower()
LowerStr(s) == IF s = "" THEN "" ELSE LowerCh(Head(s)) \o LowerStr(Tail(s))

RECURSIVE LStrip(_)
LStrip(s) == IF s # "" /\ Head(s) \in Whitespace THEN LStrip(Tail(s)) ELSE s

RECURSIVE RStrip(_)
RStrip(s) ==
    IF s # "" /\ Ch(s, Len(s)) \in Whitespace
    THEN RStrip(Sub(s, 1, Len(s) - 1))
    ELSE s

\* s.strip()
Strip(s) == RStrip(LStrip(s))

\* the index of the first character at or after i that is not in set S
\* (Len(s) + 1 when there is none): the end of a greedy run S*
RECURSIVE RunEnd(_, _, _)
RunEnd(s, i, S) ==
    IF i <= Len(s) /\ Ch(s, i) \in S THEN RunEnd(s, i + 1, S) ELSE i

\* the index of the first character at or after i that is in set S
RECURSIVE FindIn(_, _, _)
FindIn(s, i, S) ==
    IF i <= Len(s) /\ Ch(s, i) \notin S THEN FindIn(s, i + 1, S) ELSE i

\* the join of s.split() with single spaces: whitespace runs become one space, the ends are trimmed
RECURSIVE JoinSplit(_)
JoinSplit(s) ==
    LET t == LStrip(s)
        e == FindIn(t, 1, Whitespace)          \* end of the first word
        rest == LStrip(Slice(t, e - 1))
    IN IF t = "" THEN ""
       ELSE IF rest = "" THEN Sub(t, 1, e - 1)
       ELSE Sub(t, 1, e - 1) \o " " \o JoinSplit(rest)

(***************************************************************************)
(* clean_text                                                              *)
(***************************************************************************)
\* re.sub(r'\\[a-zA-Z]+\{[^}]*\}', '', text): leftmost, greedy, non-overlapping
RECURSIVE RemoveCommandsWithArg(_)
RemoveCommandsWithArg(text) ==
    IF text = "" THEN ""
    ELSE LET j == RunEnd(text, 2, Letters)            \* after \letters
             k == FindIn(text, j + 1, {"}"})          \* the closing brace
         IN IF /\ Head(text) = "\\"
               /\ j > 2
               /\ j <= Len(text) /\ Ch(text, j) = "{"
               /\ k <= Len(text)
            THEN RemoveCommandsWithArg(Slice(text, k))
            ELSE Head(text) \o RemoveCommandsWithArg(Tail(text))

\* re.sub(r'\\[a-zA-Z]+', '', text)
RECURSIVE RemoveBareCommands(_)
RemoveBareCommands(text) ==
    IF text = "" THEN ""
    ELSE LET j == RunEnd(text, 2, Letters)
         IN IF Head(text) = "\\" /\ j > 2
            THEN RemoveBareCommands(Slice(text, j - 1))
            ELSE Head(text) \o RemoveBareCommands(Tail(text))

\* a plausible slip: the second substitution is left out, so that commands
\* without an argument stay in the text
CleanTextNoBareRemoval(text) == JoinSplit(RemoveCommandsWithArg(text))

\* subject_vibe.clean_text, short_description_and_category.clean_text
clean_text(text) ==
    JoinSplit(RemoveBareCommands(RemoveCommandsWithArg(text)))

\* bibtex2csv.clean_text: the same behind an empty-input guard
csv_clean_text(text) == IF text = "" THEN "" ELSE clean_text(text)

RECURSIVE RemovePunctuation(_)
\* text.translate(str.maketrans('', '', string.punctuation))
RemovePunctuation(text) ==
    IF text = "" THEN ""
    ELSE IF Head(text) \in Punctuation THEN RemovePunctuation(Tail(text))
    ELSE Head(text) \o RemovePunctuation(Tail(text))

\* tf_idf.clean_text: also strips punctuation and lowercases
tfidf_clean_text(text) ==
    JoinSplit(LowerStr(RemovePunctuation(
        RemoveBareCommands(RemoveCommandsWithArg(text)))))

(***************************************************************************)
(* DOI normalization                                                       *)
(***************************************************************************)
HttpsPrefix == "https://doi.org/"
HttpDxPrefix == "http://dx.doi.org/"
DxPrefix == "dx.doi.org/"
UrlPrefixes == {HttpsPrefix, HttpDxPrefix, DxPrefix}

\* the prefix test of the single-prefix normalizers: doi[16:] after
\* doi.startswith('https://doi.org/')
StripHttpsPrefix(doi) ==
    IF StartsWith(doi, HttpsPrefix) THEN Slice(doi, 16) ELSE doi

\* a plausible slip: the slice is one short and keeps the slash
CleanDoiShortSlice(doi_string) ==
    LET doi == Strip(doi_string)
    IN IF StartsWith(doi, HttpsPrefix) THEN Slice(doi, 15) ELSE doi

\* check_dois_valid.clean_doi
clean_doi(doi_string) == StripHttpsPrefix(Strip(doi_string))

\* the if/elif chain of the three-prefix normalizers (doi_overlap and
\* set_of_dois extract_dois_from_bibtex, short_description_and_category)
StripCommonPrefixes(doi) ==
    IF StartsWith(doi, HttpsPrefix) THEN Slice(doi, 16)
    ELSE IF StartsWith(doi, HttpDxPrefix) THEN Slice(doi, 18)
    ELSE IF StartsWith(doi, DxPrefix) THEN Slice(doi, 11)
    ELSE doi

\* the value doi_overlap.extract_dois_from_bibtex derives from a doi field
bibtex_doi(field) == StripCommonPrefixes(Strip(field))

\* the value doi_overlap.extract_dois_from_file derives from a line
file_line_doi(line) == StripHttpsPrefix(Strip(line))

\* a plausible slip: the captured doi is trimmed but keeps its URL prefix
RegexDoiPrefixKept(group) == Strip(group)

\* the value the regex parsers store for a captured doi field
\* (topic_frequency, tf_idf, subject_vibe, set_of_DOIs)
regex_doi(group) == StripHttpsPrefix(Strip(group))

\* bibtex2csv.format_doi_url
format_doi_url(doi) ==
    IF doi = "" THEN ""
    ELSE LET d == Strip(doi)
         IN IF StartsWith(d, HttpsPrefix) THEN d
            ELSE IF StartsWith(d, HttpDxPrefix) THEN HttpsPrefix \o Slice(d, 18)
            ELSE IF StartsWith(d, DxPrefix) THEN HttpsPrefix \o Slice(d, 11)
            ELSE HttpsPrefix \o d

(***************************************************************************)
(* The regular expressions of the BibTeX parsers                           *)
(***************************************************************************)
\* where a match of @\w+\s*\{ that starts at index i ends (the index of the
\* opening brace), 0 when there is no match at i
MarkerEndAt(s, i) ==
    LET j == RunEnd(s, i + 1, WordChars)
        k == RunEnd(s, j, Whitespace)
    IN IF /\ i <= Len(s) /\ Ch(s, i) = "@"
          /\ j > i + 1
          /\ k <= Len(s) /\ Ch(s, k) = "{"
       THEN k ELSE 0

\* re.match(r'^@\w+\s*\{', line)
IsEntryStart(line) == MarkerEndAt(line, 1) > 0

\* re.search(r'^@\w+\s*\{\s*(\w+)', line) of topic_frequency: <<group 1>>, or
\* <<>> for no match
TopicKeyMatch(line) ==
    LET k == MarkerEndAt(line, 1)
        a == RunEnd(line, k + 1, Whitespace)
        b == RunEnd(line, a, WordChars)
    IN IF k > 0 /\ b > a THEN <<Sub(line, a, b - 1)>> ELSE <<>>

\* re.search(r'^@\w+\s*\{\s*([^,]+)', line) of tf_idf.  \s* gives back
\* whitespace when nothing but whitespace follows the brace.
TfIdfKeyMatch(line) ==
    LET k == MarkerEndAt(line, 1)
        a == RunEnd(line, k + 1, Whitespace)
        b == FindIn(line, a, {","})
    IN IF k = 0 THEN <<>>
       ELSE IF b > a THEN <<Sub(line, a, b - 1)>>
       ELSE IF a > k + 1 THEN <<Sub(line, a - 1, a - 1)>>
       ELSE <<>>

\* a plausible slip: only the closing brace ends a value
ClosingBraceOnly == {"}"}

FieldOpeners == {"\"", "{"}
FieldClosers == {"\"", "}"}

\* the three ways the parsers guard the start of a field name:
\* "none" (no guard), "b" (\b) and "notletter" ((?<![a-zA-Z]))
GuardOk(s, i, guard) ==
    CASE guard = "b" -> i = 1 \/ Ch(s, i - 1) \notin WordChars
      [] guard = "notletter" -> i = 1 \/ Ch(s, i - 1) \notin Letters
      [] OTHER -> TRUE

\* a match of name\s*=\s*["{]([^}"]+)["}] (re.IGNORECASE) that starts at
\* index i: <<group 1>>, or <<>> when the pattern does not match there
FieldMatchAt(s, i, name) ==
    LET n == Len(name)
        j == RunEnd(s, i + n, Whitespace)          \* the "="
        k == RunEnd(s, j + 1, Whitespace)          \* the opening delimiter
        e == FindIn(s, k + 1, FieldClosers)        \* the closing delimiter
    IN IF /\ i + n - 1 <= Len(s)
          /\ LowerCh(Ch(s, i)) = Ch(name, 1)
          /\ LowerStr(Sub(s, i, i + n - 1)) = name
          /\ j <= Len(s) /\ Ch(s, j) = "="
          /\ k <= Len(s) /\ Ch(s, k) \in FieldOpeners
          /\ e > k + 1
          /\ e <= Len(s)
       THEN <<Sub(s, k + 1, e - 1)>>
       ELSE <<>>

\* re.search from index i on: the leftmost match
RECURSIVE FieldSearchFrom(_, _, _, _)
FieldSearchFrom(s, i, name, guard) ==
    IF i > Len(s) THEN <<>>
    ELSE LET m == IF GuardOk(s, i, guard) THEN FieldMatchAt(s, i, name) ELSE <<>>
         IN IF m # <<>> THEN m ELSE FieldSearchFrom(s, i + 1, name, guard)

FieldSearch(s, name, guard) == FieldSearchFrom(s, 1, name, guard)

\* the index at which the leftmost match of @\w+\s*\{ starts, 0 for none
RECURSIVE MarkerSearchFrom(_, _)
MarkerSearchFrom(s, i) ==
    IF i > Len(s) THEN 0
    ELSE IF MarkerEndAt(s, i) > 0 THEN i
    ELSE MarkerSearchFrom(s, i + 1)

\* re.split(r'@\w+\s*\{', content)
RECURSIVE SplitAtMarkers(_)
SplitAtMarkers(content) ==
    LET i == MarkerSearchFrom(content, 1)
    IN IF i = 0 THEN <<content>>
       ELSE <<Sub(content, 1, i - 1)>>
                \o SplitAtMarkers(Slice(content, MarkerEndAt(content, i)))

(***************************************************************************)
(* Python dicts: functions from the keys present to their values           *)
(***************************************************************************)
EmptyDict == <<>>
DictSet(d, k, v) == [x \in DOMAIN d \cup {k} |-> IF x = k THEN v ELSE d[x]]
\* d.get(k) is truthy
Truthy(d, k) == k \in DOMAIN d /\ d[k] # ""
\* d[k] = v when the search matched
SetIfMatch(d, k, m) == IF m = <<>> THEN d ELSE DictSet(d, k, m[1])

(***************************************************************************)
(* The clean_text harness: one call of one script's clean_text on one      *)
(* string over CleanChars.                                                 *)
(***************************************************************************)
MaxTextLen == 4
CleanChars == {"\\", "a", "B", "{", "}", " ", "\n"}

RECURSIVE StringsUpTo(_, _)
StringsUpTo(n, C) ==
    IF n = 0 THEN {""}
    ELSE LET P == StringsUpTo(n - 1, C)
         IN P \cup {s \o c : s \in P, c \in C}

CleanTools == {"subject_vibe", "bibtex2csv", "tf_idf"}

CtIdle == ct_tool = "none" /\ ct_text = "" /\ ct_out = "" /\ ct_pc = "idle"
DnIdle == dn_in = "" /\ dn_trace = <<>>
OvIdle ==
    /\ ov_lines = <<>> /\ ov_fields = <<>>
    /\ doi_list = {} /\ bibtex_dois = {}
    /\ overlapping_dois = {} /\ missing_dois = {}
    /\ overlap_percentage = <<0, 1>> /\ missing_percentage = <<0, 1>>
    /\ ov_pc = "idle"
PIdle ==
    /\ p_tool = "none" /\ p_src = <<>> /\ doi_filter = {} /\ p_items = <<>>
    /\ p_pos = 0 /\ in_entry = FALSE /\ current_entry = <<>> /\ p_out = <<>>
    /\ p_pc = "idle"
TvIdle ==
    /\ tv_docs = <<>> /\ min_df = 0 /\ max_df_ratio = <<>>
    /\ tokenized_docs = <<>> /\ word_doc_count = <<>> /\ vocabulary = {}
    /\ tv_pc = "idle" /\ idf = <<>>
\* nothing but the parsers and normalizers is run
TpIdle ==
    /\ tp_lines = <<>> /\ topics = <<>> /\ tp_entries = <<>>
    /\ case_sensitive = FALSE
    /\ topic_frequency = <<>> /\ topic_entries = <<>>
    /\ tp_e = 0 /\ tp_t = 0 /\ tp_pc = "idle"
    /\ topic_order = <<>> /\ sorted_topics = <<>>
CvIdle ==
    /\ cv_file = <<>> /\ cv_out_ok = TRUE /\ concurrent = 0
    /\ cv_dois = <<>> /\ futures = <<>> /\ cv_in_flight = {}
    /\ cv_issued = <<>> /\ cv_completed = <<>> /\ cv_sleeps = 0
    /\ results = <<>> /\ valid_count = 0 /\ invalid_count = 0
    /\ cv_csv = <<>> /\ cv_summary = <<>> /\ cv_exit = "running"
    /\ cv_pc = "idle"
RsIdle == rs_fn = "none" /\ rs_resp = <<>> /\ rs_out = <<>> /\ rs_pc = "idle"
BtIdle ==
    /\ bt_tool = "none" /\ bt_file = <<>> /\ bt_out_ok = TRUE /\ bt_delay = 0
    /\ bt_items = <<>> /\ bt_in_flight = {} /\ bt_issued = <<>>
    /\ bt_sleeps = 0 /\ bt_rows = <<>> /\ bt_counts = <<>>
    /\ bt_saved = FALSE /\ bt_console = <<>> /\ bt_exit = "running"
    /\ bt_pc = "idle"
TlIdle ==
    /\ tl_tool = "none" /\ tl_input = "ok" /\ tl_found = 0 /\ tl_hits = 0
    /\ tl_second = 0 /\ tl_output = "none" /\ tl_trace = <<>>
    /\ tl_percent = <<>> /\ tl_exit = "running" /\ tl_pc = "idle"
DsIdle ==
    /\ ds_tool = "none" /\ ds_left = 0 /\ ds_file = <<>> /\ ds_dois = {}
    /\ all_dois = {} /\ file_doi_counts = <<>> /\ ds_seen = {}
    /\ ds_occurrences = 0 /\ total_dois_with_duplicates = 0
    /\ duplicate_count = 0 /\ ds_pc = "idle"
ScIdle ==
    /\ sc_base = "none" /\ max_pages = 0 /\ sc_delay = 0 /\ page_num = 0
    /\ sc_requested = <<>> /\ sc_fetched = <<>> /\ all_papers = <<>>
    /\ sc_sleeps = 0 /\ sc_result = <<>> /\ sc_pc = "idle"
FsIdle ==
    /\ fs_tool = "none" /\ fs_written = "" /\ fs_opener = "" /\ fs_value = ""
    /\ fs_closer = "" /\ fs_match = <<>> /\ fs_pc = "idle"
LateIdle == DsIdle /\ ScIdle /\ FsIdle
MoreIdle ==
    TvIdle /\ TpIdle /\ CvIdle /\ RsIdle /\ BtIdle /\ TlIdle /\ LateIdle
\* none of the parsers and normalizers is run
FirstIdle == CtIdle /\ DnIdle /\ OvIdle /\ PIdle

InitClean ==
    /\ ct_tool \in CleanTools
    /\ ct_text \in StringsUpTo(MaxTextLen, CleanChars)
    /\ ct_out = ""
    /\ ct_pc = "call"
    /\ DnIdle /\ OvIdle /\ PIdle /\ MoreIdle

CallCleanTextVibe ==
    /\ ct_pc = "call" /\ ct_tool = "subject_vibe"
    /\ ct_out' = clean_text(ct_text)
    /\ ct_pc' = "ret"
    /\ UNCHANGED <<ct_tool, ct_text, dn_vars, ov_vars, p_vars, more_vars>>

CallCleanTextCsv ==
    /\ ct_pc = "call" /\ ct_tool = "bibtex2csv"
    /\ ct_out' = csv_clean_text(ct_text)
    /\ ct_pc' = "ret"
    /\ UNCHANGED <<ct_tool, ct_text, dn_vars, ov_vars, p_vars, more_vars>>

CallCleanTextTfIdf ==
    /\ ct_pc = "call" /\ ct_tool = "tf_idf"
    /\ ct_out' = tfidf_clean_text(ct_text)
    /\ ct_pc' = "ret"
    /\ UNCHANGED <<ct_tool, ct_text, dn_vars, ov_vars, p_vars, more_vars>>

NextClean == CallCleanTextVibe \/ CallCleanTextCsv \/ CallCleanTextTfIdf

SpecClean == InitClean /\ [][NextClean]_vars

\* ---- properties of a string
HasBackslashLetter(s) ==
    \E i \in 1..(Len(s) - 1) : Ch(s, i) = "\\" /\ Ch(s, i + 1) \in Letters
\* whitespace other than single spaces between two non-blank characters
HasLooseWhitespace(s) ==
    \/ \E i \in 1..Len(s) : Ch(s, i) \in Whitespace \ {" "}
    \/ \E i \in 1..(Len(s) - 1) : Ch(s, i) = " " /\ Ch(s, i + 1) = " "
    \/ s # "" /\ (Head(s) = " " \/ Ch(s, Len(s)) = " ")

\* C2: for every input string, the value clean_text returns holds no
\* backslash immediately followed by a letter, no whitespace run other than
\* a single space, and no leading or trailing whitespace.
C2_CleanTextOutput ==
    ct_pc = "ret" => ~HasBackslashLetter(ct_out) /\ ~HasLooseWhitespace(ct_out)

\* C2 witness: a call whose argument held a command with an argument, a
\* bare command and a whitespace run, all of which the call removed.
C2_Witness ==
    /\ ct_pc = "ret"
    /\ ct_tool = "subject_vibe"
    /\ HasBackslashLetter(ct_text)
    /\ HasLooseWhitespace(ct_text)
    /\ ct_out # "" /\ ct_out # ct_text

(***************************************************************************)
(* The DOI normalizer harness: up to MaxCalls calls, each applied to the   *)
(* value the previous call returned (the first to the raw string).         *)
(***************************************************************************)
MaxPieces == 3
MaxCalls == 2
DoiPieces == {HttpsPrefix, HttpDxPrefix, DxPrefix, "10.1/a", " "}

RECURSIVE ConcatsUpTo(_, _)
ConcatsUpTo(n, P) ==
    IF n = 0 THEN {""}
    ELSE LET S == ConcatsUpTo(n - 1, P)
         IN S \cup {s \o p : s \in S, p \in P}

RawDois == ConcatsUpTo(MaxPieces, DoiPieces)

\* the operations that are meant to return a bare identifier
BareOps == {"clean_doi", "file_line_doi", "bibtex_doi", "regex_doi"}

DnArg == IF dn_trace = <<>> THEN dn_in ELSE dn_trace[Len(dn_trace)].val

\* main of check_dois_valid: clean_doi(line) for each line of the DOI file
CallCleanDoi ==
    /\ dn_in # "" /\ Len(dn_trace) < MaxCalls
    /\ dn_trace' = Append(dn_trace,
            [op |-> "clean_doi", arg |-> DnArg, val |-> clean_doi(DnArg)])
    /\ UNCHANGED <<dn_in, ct_vars, ov_vars, p_vars, more_vars>>

\* doi_overlap.extract_dois_from_file, one line
CallFileLineDoi ==
    /\ dn_in # "" /\ Len(dn_trace) < MaxCalls
    /\ dn_trace' = Append(dn_trace,
            [op |-> "file_line_doi", arg |-> DnArg, val |-> file_line_doi(DnArg)])
    /\ UNCHANGED <<dn_in, ct_vars, ov_vars, p_vars, more_vars>>

\* doi_overlap.extract_dois_from_bibtex, one doi field
CallBibtexDoi ==
    /\ dn_in # "" /\ Len(dn_trace) < MaxCalls
    /\ dn_trace' = Append(dn_trace,
            [op |-> "bibtex_doi", arg |-> DnArg, val |-> bibtex_doi(DnArg)])
    /\ UNCHANGED <<dn_in, ct_vars, ov_vars, p_vars, more_vars>>

\* the regex parsers, one captured doi field
CallRegexDoi ==
    /\ dn_in # "" /\ Len(dn_trace) < MaxCalls
    /\ dn_trace' = Append(dn_trace,
            [op |-> "regex_doi", arg |-> DnArg, val |-> regex_doi(DnArg)])
    /\ UNCHANGED <<dn_in, ct_vars, ov_vars, p_vars, more_vars>>

\* bibtex2csv.convert_bibtex_to_csv, one doi field
CallFormatDoiUrl ==
    /\ dn_in # "" /\ Len(dn_trace) < MaxCalls
    /\ dn_trace' = Append(dn_trace,
            [op |-> "format_doi_url", arg |-> DnArg, val |-> format_doi_url(DnArg)])
    /\ UNCHANGED <<dn_in, ct_vars, ov_vars, p_vars, more_vars>>

InitNorm ==
    /\ dn_in \in RawDois \ {""}
    /\ dn_trace = <<>>
    /\ CtIdle /\ OvIdle /\ PIdle /\ MoreIdle

NextNorm ==
    \/ CallCleanDoi
    \/ CallFileLineDoi
    \/ CallBibtexDoi
    \/ CallRegexDoi
    \/ CallFormatDoiUrl

SpecNorm == InitNorm /\ [][NextNorm]_vars

HasUrlPrefix(x) == \E p \in UrlPrefixes : StartsWith(x, p)
\* an already-bare identifier
IsBareId(x) == x # "" /\ Strip(x) = x /\ ~HasUrlPrefix(x)
BareIds == {x \in RawDois : IsBareId(x)}

\* C3: every bare-id normalizer returns exactly the suffix s for each of the
\* three inputs prefix + s, whichever recognized prefix was used.
C3_AllPrefixesStripped ==
    \A i \in DOMAIN dn_trace :
        \A p \in UrlPrefixes, s \in BareIds :
            (dn_trace[i].op \in BareOps /\ dn_trace[i].arg = p \o s)
                => dn_trace[i].val = s

\* C4: for every already-bare identifier x, a bare-id normalizer applied to
\* format_doi_url(x) returns x.
C4_RoundTrip ==
    \A i \in DOMAIN dn_trace :
        (/\ i > 1
         /\ dn_trace[i - 1].op = "format_doi_url"
         /\ IsBareId(dn_trace[i - 1].arg)
         /\ dn_trace[i].op \in BareOps)
            => dn_trace[i].val = dn_trace[i - 1].arg

\* C4 witness: clean_doi has returned a bare identifier with a space inside
\* from the URL format_doi_url built for it.
C4_Witness ==
    /\ Len(dn_trace) = 2
    /\ dn_trace[1].op = "format_doi_url"
    /\ dn_trace[2].op = "clean_doi"
    /\ dn_in = "10.1/a 10.1/a"
    /\ dn_trace[1].val = HttpsPrefix \o dn_in
    /\ dn_trace[2].val = dn_in

\* C29: a bare-id normalizer applied to its own output returns that output
\* unchanged.
C29_Idempotent ==
    \A i \in DOMAIN dn_trace :
        (/\ i > 1
         /\ dn_trace[i].op \in BareOps
         /\ dn_trace[i - 1].op = dn_trace[i].op)
            => dn_trace[i].val = dn_trace[i - 1].val

(***************************************************************************)
(* doi_overlap: the two extractors and main's set algebra                  *)
(***************************************************************************)
MaxOvLines == 2
OvRaw == {"10.1/a", "https://doi.org/10.1/a", "dx.doi.org/10.1/b", "10.1/b", " "}

RECURSIVE SeqsUpTo(_, _)
SeqsUpTo(n, S) ==
    IF n = 0 THEN {<<>>}
    ELSE LET P == SeqsUpTo(n - 1, S)
         IN P \cup {Append(q, x) : q \in P, x \in S}

Range(q) == {q[i] : i \in DOMAIN q}

\* doi_list.intersection(bibtex_dois)
FindOverlapping(dois, bib) == dois \cap bib

\* a plausible slip: the operands of the difference are swapped
FindMissingSwapped(dois, bib) == bib \ dois

\* doi_list - bibtex_dois
FindMissing(dois, bib) == dois \ bib

InitOverlap ==
    /\ ov_lines \in SeqsUpTo(MaxOvLines, OvRaw)
    /\ ov_fields \in SeqsUpTo(MaxOvLines, OvRaw)
    /\ doi_list = {} /\ bibtex_dois = {}
    /\ overlapping_dois = {} /\ missing_dois = {}
    /\ overlap_percentage = <<0, 1>> /\ missing_percentage = <<0, 1>>
    /\ ov_pc = "start"
    /\ CtIdle /\ DnIdle /\ PIdle /\ MoreIdle

\* extract_dois_from_file: every line stripped, its https prefix removed,
\* added when not empty
ExtractDoisFromFile ==
    /\ ov_pc = "start"
    /\ doi_list' = {file_line_doi(l) : l \in Range(ov_lines)} \ {""}
    /\ ov_pc' = "file_read"
    /\ UNCHANGED <<ov_lines, ov_fields, bibtex_dois, overlapping_dois,
                   missing_dois, overlap_percentage, missing_percentage,
                   ct_vars, dn_vars, p_vars, more_vars>>

\* extract_dois_from_bibtex: every doi field stripped, one of the three
\* prefixes removed, added when not empty
ExtractDoisFromBibtex ==
    /\ ov_pc = "file_read"
    /\ bibtex_dois' = {bibtex_doi(f) : f \in Range(ov_fields)} \ {""}
    /\ ov_pc' = "bib_read"
    /\ UNCHANGED <<ov_lines, ov_fields, doi_list, overlapping_dois,
                   missing_dois, overlap_percentage, missing_percentage,
                   ct_vars, dn_vars, p_vars, more_vars>>

\* main: sys.exit(1) when either set is empty
OverlapExitNoDois ==
    /\ ov_pc = "bib_read"
    /\ doi_list = {} \/ bibtex_dois = {}
    /\ ov_pc' = "exit1"
    /\ UNCHANGED <<ov_lines, ov_fields, doi_list, bibtex_dois,
                   overlapping_dois, missing_dois, overlap_percentage,
                   missing_percentage, ct_vars, dn_vars, p_vars, more_vars>>

\* main: the overlap, the difference and the two percentages it prints
OverlapReport ==
    /\ ov_pc = "bib_read"
    /\ doi_list # {} /\ bibtex_dois # {}
    /\ overlapping_dois' = FindOverlapping(doi_list, bibtex_dois)
    /\ missing_dois' = FindMissing(doi_list, bibtex_dois)
    /\ overlap_percentage' =
          <<Cardinality(overlapping_dois') * 100, Cardinality(doi_list)>>
    /\ missing_percentage' =
          <<100 * overlap_percentage'[2] - overlap_percentage'[1],
            overlap_percentage'[2]>>
    /\ ov_pc' = "reported"
    /\ UNCHANGED <<ov_lines, ov_fields, doi_list, bibtex_dois, ct_vars, dn_vars,
                   p_vars, more_vars>>

NextOverlap ==
    \/ ExtractDoisFromFile
    \/ ExtractDoisFromBibtex
    \/ OverlapExitNoDois
    \/ OverlapReport

SpecOverlap == InitOverlap /\ [][NextOverlap]_vars

MaxItems == 2

Field(name, value, text) == [name |-> name, value |-> value, text |-> text]
Entry(head, fields, closed) ==
    [kind |-> "entry", head |-> head, fields |-> fields, closed |-> closed]
Stray(text) == [kind |-> "stray", head |-> text, fields |-> <<>>, closed |-> FALSE]

DoiA == Field("doi", "10.1/a", "doi={10.1/a},")
DoiB == Field("doi", "https://doi.org/10.1/b", "doi={https://doi.org/10.1/b},")
DoiC == Field("doi", "http://dx.doi.org/10.1/c", "  DOI = \"http://dx.doi.org/10.1/c\",")
DoiBlank == Field("doi", "https://doi.org/", "doi = {https://doi.org/},")
TitleMarkup == Field("title", "Foo \\textbf{Bar}", "title={Foo \\textbf{Bar}},")
TitleT == Field("title", "The  Title", "  title = {The  Title},")
BookBaz == Field("booktitle", "Baz", "booktitle={Baz},")
AbstractA == Field("abstract", "An \\emph{x} abstract", "  abstract = {An \\emph{x} abstract},")
KeywordsK == Field("keywords", "ai, cs1", "keywords = {ai, cs1},")
YearY == Field("year", "2025", "year = {2025},")

EntryFooBar == Entry("@article{a1,", <<DoiA, TitleMarkup>>, TRUE)
EntryBaz == Entry("@inproceedings{b2,", <<DoiB, BookBaz>>, TRUE)
EntryTitleBook == Entry("@article{c3,", <<DoiA, TitleT, BookBaz>>, TRUE)
EntryBookTitle == Entry("@article {d4,", <<BookBaz, TitleT, DoiB>>, TRUE)
EntryAbstract == Entry("@misc{e5,", <<AbstractA, KeywordsK>>, TRUE)
EntryDx == Entry("@article{f6,", <<TitleT, DoiC>>, TRUE)
EntryOpen == Entry("@article{g7,", <<DoiA, TitleT>>, FALSE)
EntryBlankDoi == Entry("@misc{h8,", <<DoiBlank, YearY>>, TRUE)
EntryYear == Entry("@book{i9,", <<YearY>>, TRUE)

SrcItems == {EntryFooBar, EntryBaz, EntryTitleBook, EntryBookTitle, EntryAbstract,
             EntryDx, EntryOpen, EntryBlankDoi, EntryYear, Stray("% a note")}

Bibliographies == SeqsUpTo(MaxItems, SrcItems)

FieldLines(fields) == [i \in 1..Len(fields) |-> fields[i].text]

\* the lines of one item as they stand in the file
ItemLines(item) ==
    <<item.head>> \o FieldLines(item.fields)
        \o (IF item.kind = "entry" /\ item.closed THEN <<"}">> ELSE <<>>)

RECURSIVE FileLines(_)
\* the lines of the file, without their line ends
FileLines(src) ==
    IF src = <<>> THEN <<>> ELSE ItemLines(Head(src)) \o FileLines(Tail(src))

RECURSIVE JoinLines(_)
\* f.read(): every line with its line end
JoinLines(lines) ==
    IF lines = <<>> THEN "" ELSE Head(lines) \o "\n" \o JoinLines(Tail(lines))

\* bibtexparser.load: one dict per entry, field name -> value
EntryDict(item) ==
    [n \in {item.fields[i].name : i \in DOMAIN item.fields} |->
        LET i == CHOOSE k \in DOMAIN item.fields : item.fields[k].name = n
        IN item.fields[i].value]

RECURSIVE BibtexparserLoad(_)
BibtexparserLoad(src) ==
    IF src = <<>> THEN <<>>
    ELSE (IF Head(src).kind = "entry" THEN <<EntryDict(Head(src))>> ELSE <<>>)
            \o BibtexparserLoad(Tail(src))

(***************************************************************************)
(* topic_frequency.extract_entries_from_bibtex: one line of the file       *)
(***************************************************************************)
\* a plausible slip: the line end is not put back after the strip
AccumulateNoLineEnd(content, line) == content \o line

\* current_entry['content'] += line + the line end
AccumulateLine(content, line) == content \o line \o "\n"

\* the entry after the field searches on one line of an entry
TopicFrequencyFields(entry, line) ==
    LET c1 == DictSet(entry, "content", AccumulateLine(entry["content"], line))
        doi_match == FieldSearch(line, "doi", "none")
        c2 == IF doi_match # <<>>
              THEN DictSet(c1, "doi", regex_doi(doi_match[1])) ELSE c1
        title_match == FieldSearch(line, "title", "notletter")
    IN IF title_match # <<>>
       THEN DictSet(c2, "title", Strip(title_match[1])) ELSE c2

\* if 'doi' in current_entry
TopicFrequencyKeep(e) == "doi" \in DOMAIN e

\* a plausible slip: the marker pattern leaves out the optional whitespace
IsEntryStartNoSpace(line) ==
    line # "" /\ Head(line) = "@"
        /\ RunEnd(line, 2, WordChars) > 2
        /\ RunEnd(line, 2, WordChars) <= Len(line)
        /\ Ch(line, RunEnd(line, 2, WordChars)) = "{"

\* the test that begins an entry in both line parsers
LineStartsEntry(line) == IsEntryStart(line)

\* the loop body: st is [in_entry, current_entry, entries]
TopicFrequencyStep(st, raw) ==
    LET line == Strip(raw)
    IN IF LineStartsEntry(line)
       THEN [in_entry |-> TRUE,
             current_entry |->
                SetIfMatch(DictSet(EmptyDict, "content", line \o "\n"),
                           "key", TopicKeyMatch(line)),
             entries |-> st.entries]
       ELSE IF st.in_entry
       THEN LET e == TopicFrequencyFields(st.current_entry, line)
            IN IF line = "}"
               THEN [in_entry |-> FALSE,
                     current_entry |-> EmptyDict,
                     entries |-> IF TopicFrequencyKeep(e)
                                 THEN Append(st.entries, e) ELSE st.entries]
               ELSE [in_entry |-> TRUE, current_entry |-> e,
                     entries |-> st.entries]
       ELSE st

(***************************************************************************)
(* tf_idf.extract_text_from_bibtex: one line of the file                   *)
(***************************************************************************)
CleanedIfMatch(d, k, m) ==
    IF m = <<>> THEN d ELSE DictSet(d, k, tfidf_clean_text(m[1]))

TfIdfFields(entry, line) ==
    LET c1 == CleanedIfMatch(entry, "title", FieldSearch(line, "title", "none"))
        c2 == CleanedIfMatch(c1, "abstract", FieldSearch(line, "abstract", "none"))
        c3 == CleanedIfMatch(c2, "keywords", FieldSearch(line, "keywords", "none"))
        doi_match == FieldSearch(line, "doi", "none")
    IN IF doi_match # <<>>
       THEN DictSet(c3, "doi", regex_doi(doi_match[1])) ELSE c3

\* the join of the truthy title, abstract and keywords with single spaces
TfIdfContent(e) ==
    LET t == IF Truthy(e, "title") THEN <<e["title"]>> ELSE <<>>
        a == IF Truthy(e, "abstract") THEN <<e["abstract"]>> ELSE <<>>
        k == IF Truthy(e, "keywords") THEN <<e["keywords"]>> ELSE <<>>
        parts == t \o a \o k
    IN IF Len(parts) = 1 THEN parts[1]
       ELSE IF Len(parts) = 2 THEN parts[1] \o " " \o parts[2]
       ELSE parts[1] \o " " \o parts[2] \o " " \o parts[3]

\* if current_entry.get('title') or current_entry.get('abstract')
TfIdfKeep(e) == Truthy(e, "title") \/ Truthy(e, "abstract")

TfIdfStep(st, raw) ==
    LET line == Strip(raw)
    IN IF LineStartsEntry(line)
       THEN [in_entry |-> TRUE,
             current_entry |->
                LET m == TfIdfKeyMatch(line)
                IN SetIfMatch(DictSet(EmptyDict, "content", ""), "key",
                              IF m = <<>> THEN m ELSE <<Strip(m[1])>>),
             entries |-> st.entries]
       ELSE IF st.in_entry
       THEN LET e == TfIdfFields(st.current_entry, line)
            IN IF line = "}"
               THEN [in_entry |-> FALSE,
                     current_entry |-> EmptyDict,
                     entries |->
                        IF TfIdfKeep(e)
                        THEN Append(st.entries,
                                    DictSet(e, "content", TfIdfContent(e)))
                        ELSE st.entries]
               ELSE [in_entry |-> TRUE, current_entry |-> e,
                     entries |-> st.entries]
       ELSE st

(***************************************************************************)
(* subject_vibe.extract_papers_from_bibtex: one block of the split         *)
(***************************************************************************)
SubjectVibePaper(entry) ==
    LET doi_match == FieldSearch(entry, "doi", "none")
        p1 == IF doi_match # <<>>
              THEN DictSet(EmptyDict, "doi", regex_doi(doi_match[1]))
              ELSE EmptyDict
        title_match == FieldSearch(entry, "title", "b")
        booktitle_match == FieldSearch(entry, "booktitle", "b")
        p2 == IF title_match # <<>>
              THEN DictSet(p1, "title", clean_text(title_match[1]))
              ELSE IF booktitle_match # <<>>
              THEN DictSet(p1, "title", clean_text(booktitle_match[1]))
              ELSE p1
        abstract_match == FieldSearch(entry, "abstract", "b")
    IN IF abstract_match # <<>>
       THEN DictSet(p2, "abstract", clean_text(abstract_match[1])) ELSE p2

\* if paper.get('title') and paper.get('doi')
SubjectVibeKeep(paper) == Truthy(paper, "title") /\ Truthy(paper, "doi")

(***************************************************************************)
(* bibtex2csv and short_description_and_category: one parsed entry         *)
(***************************************************************************)
\* a plausible slip: every row is exported
CsvKeepEveryRow(row) == TRUE

\* if doi or title
CsvKeep(row) == row.doi # "" \/ row.title # ""

\* if paper.get('title') and paper.get('doi') and paper['doi'] in doi_filter
ShortDescKeep(paper, filter) ==
    Truthy(paper, "title") /\ Truthy(paper, "doi") /\ paper["doi"] \in filter

\* the csv_data row of an entry
CsvRow(entry) ==
    [doi |-> IF "doi" \in DOMAIN entry THEN format_doi_url(entry["doi"]) ELSE "",
     title |-> IF "title" \in DOMAIN entry THEN csv_clean_text(entry["title"])
               ELSE IF "booktitle" \in DOMAIN entry
               THEN csv_clean_text(entry["booktitle"])
               ELSE ""]

ShortDescPaper(entry) ==
    LET p1 == IF "doi" \in DOMAIN entry
              THEN DictSet(EmptyDict, "doi", bibtex_doi(entry["doi"]))
              ELSE EmptyDict
        p2 == IF "title" \in DOMAIN entry
              THEN DictSet(p1, "title", clean_text(entry["title"]))
              ELSE IF "booktitle" \in DOMAIN entry
              THEN DictSet(p1, "title", clean_text(entry["booktitle"]))
              ELSE p1
    IN IF "abstract" \in DOMAIN entry
       THEN DictSet(p2, "abstract", clean_text(entry["abstract"])) ELSE p2

(***************************************************************************)
(* One run of one parser on one bibliography                               *)
(***************************************************************************)
LineTools == {"topic_frequency", "tf_idf"}
LibraryTools == {"bibtex2csv", "short_description_and_category"}
ParserTools == LineTools \cup {"subject_vibe"} \cup LibraryTools

DoiFilters == { {"10.1/a"}, {"10.1/a", "10.1/b", "10.1/c"} }

\* every entry of the bibliography has its closing line
AllClosed(src) == \A i \in DOMAIN src : src[i].kind = "entry" => src[i].closed

InitParse ==
    /\ p_tool \in ParserTools
    /\ p_src \in Bibliographies
    /\ p_tool \in LibraryTools => AllClosed(p_src)
    /\ doi_filter \in (IF p_tool = "short_description_and_category"
                       THEN DoiFilters ELSE {{}})
    /\ p_items = <<>>
    /\ p_pos = 0
    /\ in_entry = FALSE
    /\ current_entry = EmptyDict
    /\ p_out = <<>>
    /\ p_pc = "run"
    /\ CtIdle /\ DnIdle /\ OvIdle /\ MoreIdle

POther == <<ct_vars, dn_vars, ov_vars, more_vars>>

\* topic_frequency: the body of "for line in f", once
TopicFrequencyLine ==
    /\ p_tool = "topic_frequency" /\ p_pc = "run"
    /\ p_pos < Len(FileLines(p_src))
    /\ LET r == TopicFrequencyStep(
                    [in_entry |-> in_entry, current_entry |-> current_entry,
                     entries |-> p_out],
                    FileLines(p_src)[p_pos + 1])
       IN /\ in_entry' = r.in_entry
          /\ current_entry' = r.current_entry
          /\ p_out' = r.entries
    /\ p_pos' = p_pos + 1
    /\ UNCHANGED <<p_tool, p_src, doi_filter, p_items, p_pc, POther>>

\* topic_frequency: the end of the file, return entries
TopicFrequencyReturn ==
    /\ p_tool = "topic_frequency" /\ p_pc = "run"
    /\ p_pos = Len(FileLines(p_src))
    /\ p_pc' = "done"
    /\ UNCHANGED <<p_tool, p_src, doi_filter, p_items, p_pos, in_entry,
                   current_entry, p_out, POther>>

\* tf_idf: the body of "for line in f", once
TfIdfLine ==
    /\ p_tool = "tf_idf" /\ p_pc = "run"
    /\ p_pos < Len(FileLines(p_src))
    /\ LET r == TfIdfStep(
                    [in_entry |-> in_entry, current_entry |-> current_entry,
                     entries |-> p_out],
                    FileLines(p_src)[p_pos + 1])
       IN /\ in_entry' = r.in_entry
          /\ current_entry' = r.current_entry
          /\ p_out' = r.entries
    /\ p_pos' = p_pos + 1
    /\ UNCHANGED <<p_tool, p_src, doi_filter, p_items, p_pc, POther>>

\* tf_idf: the end of the file, return documents
TfIdfReturn ==
    /\ p_tool = "tf_idf" /\ p_pc = "run"
    /\ p_pos = Len(FileLines(p_src))
    /\ p_pc' = "done"
    /\ UNCHANGED <<p_tool, p_src, doi_filter, p_items, p_pos, in_entry,
                   current_entry, p_out, POther>>

\* subject_vibe: read the file and split it at the entry markers, dropping
\* the text before the first marker
SubjectVibeSplit ==
    /\ p_tool = "subject_vibe" /\ p_pc = "run"
    /\ p_items' = Tail(SplitAtMarkers(JoinLines(FileLines(p_src))))
    /\ p_pc' = "loop"
    /\ UNCHANGED <<p_tool, p_src, doi_filter, p_pos, in_entry, current_entry,
                   p_out, POther>>

\* subject_vibe: the body of "for entry in entries", once
SubjectVibeEntry ==
    /\ p_tool = "subject_vibe" /\ p_pc = "loop"
    /\ p_pos < Len(p_items)
    /\ LET paper == SubjectVibePaper(p_items[p_pos + 1])
       IN p_out' = IF SubjectVibeKeep(paper)
                   THEN Append(p_out, paper) ELSE p_out
    /\ p_pos' = p_pos + 1
    /\ UNCHANGED <<p_tool, p_src, doi_filter, p_items, in_entry, current_entry,
                   p_pc, POther>>

SubjectVibeReturn ==
    /\ p_tool = "subject_vibe" /\ p_pc = "loop"
    /\ p_pos = Len(p_items)
    /\ p_pc' = "done"
    /\ UNCHANGED <<p_tool, p_src, doi_filter, p_items, p_pos, in_entry,
                   current_entry, p_out, POther>>

\* bibtex2csv and short_description_and_category: bibtexparser.load
LibraryLoad ==
    /\ p_tool \in LibraryTools /\ p_pc = "run"
    /\ p_items' = BibtexparserLoad(p_src)
    /\ p_pc' = "loop"
    /\ UNCHANGED <<p_tool, p_src, doi_filter, p_pos, in_entry, current_entry,
                   p_out, POther>>

\* bibtex2csv: the body of "for entry in bib_database.entries", once
Bibtex2CsvEntry ==
    /\ p_tool = "bibtex2csv" /\ p_pc = "loop"
    /\ p_pos < Len(p_items)
    /\ LET row == CsvRow(p_items[p_pos + 1])
       IN p_out' = IF CsvKeep(row) THEN Append(p_out, row) ELSE p_out
    /\ p_pos' = p_pos + 1
    /\ UNCHANGED <<p_tool, p_src, doi_filter, p_items, in_entry, current_entry,
                   p_pc, POther>>

\* short_description_and_category: the body of the loop over the entries
ShortDescEntry ==
    /\ p_tool = "short_description_and_category" /\ p_pc = "loop"
    /\ p_pos < Len(p_items)
    /\ LET paper == ShortDescPaper(p_items[p_pos + 1])
       IN p_out' = IF ShortDescKeep(paper, doi_filter)
                   THEN Append(p_out, paper) ELSE p_out
    /\ p_pos' = p_pos + 1
    /\ UNCHANGED <<p_tool, p_src, doi_filter, p_items, in_entry, current_entry,
                   p_pc, POther>>

\* the end of the loop over the parsed entries
LibraryReturn ==
    /\ p_tool \in LibraryTools /\ p_pc = "loop"
    /\ p_pos = Len(p_items)
    /\ p_pc' = "done"
    /\ UNCHANGED <<p_tool, p_src, doi_filter, p_items, p_pos, in_entry,
                   current_entry, p_out, POther>>

NextParse ==
    \/ TopicFrequencyLine
    \/ TopicFrequencyReturn
    \/ TfIdfLine
    \/ TfIdfReturn
    \/ SubjectVibeSplit
    \/ SubjectVibeEntry
    \/ SubjectVibeReturn
    \/ LibraryLoad
    \/ Bibtex2CsvEntry
    \/ ShortDescEntry
    \/ LibraryReturn

SpecParse == InitParse /\ [][NextParse]_vars

(***************************************************************************)
(* Properties of the parsers                                               *)
(***************************************************************************)
RegexTools == LineTools \cup {"subject_vibe"}

IsEntryItem(item) == item.kind = "entry"
\* the entries of a bibliography, without the stray lines
Entries(src) == SelectSeq(src, IsEntryItem)

HasField(item, name) == \E i \in DOMAIN item.fields : item.fields[i].name = name

\* the number of lines of the file that are entry markers
RECURSIVE MarkerLines(_)
MarkerLines(lines) ==
    IF lines = <<>> THEN 0
    ELSE (IF IsEntryStart(Strip(Head(lines))) THEN 1 ELSE 0) + MarkerLines(Tail(lines))

\* ---- C1
EndToEndFile == <<EntryFooBar, EntryBaz>>

\* C1 as claimed: the two-entry bibliography yields doi 10.1/a with title
\* "Foo Bar" and doi 10.1/b with title "Baz".
C1_EndToEndAsClaimed ==
    (p_tool = "subject_vibe" /\ p_src = EndToEndFile /\ p_pc = "done") =>
        p_out = << [doi |-> "10.1/a", title |-> "Foo Bar"],
                   [doi |-> "10.1/b", title |-> "Baz"] >>

\* C1 amended: subject_vibe yields two records in file order, the first with
\* title "Foo {Bar" (the capture stops at the first closing brace, so only
\* the command name is removed), the second with the booktitle "Baz";
\* bibtex2csv, which gets the whole field value, exports the title "Foo" and
\* full DOI URLs.
C1_EndToEnd ==
    /\ (p_tool = "subject_vibe" /\ p_src = EndToEndFile /\ p_pc = "done") =>
          p_out = << [doi |-> "10.1/a", title |-> "Foo {Bar"],
                     [doi |-> "10.1/b", title |-> "Baz"] >>
    /\ (p_tool = "bibtex2csv" /\ p_src = EndToEndFile /\ p_pc = "done") =>
          p_out = << [doi |-> "https://doi.org/10.1/a", title |-> "Foo"],
                     [doi |-> "https://doi.org/10.1/b", title |-> "Baz"] >>

\* C1 witness: subject_vibe has finished the two-entry bibliography with
\* two records.
C1_Witness ==
    /\ p_tool = "subject_vibe" /\ p_src = EndToEndFile /\ p_pc = "done"
    /\ Len(p_out) = 2

\* ---- C6
\* an entry that carries what every consumer requires: a doi and a title
CarriesRequired(item) ==
    /\ item.kind = "entry"
    /\ HasField(item, "doi") /\ HasField(item, "title")
    /\ bibtex_doi(EntryDict(item)["doi"]) # ""

\* every item is such an entry and all but possibly the last are closed
WellFormed(src) ==
    /\ src # <<>>
    /\ \A i \in DOMAIN src : CarriesRequired(src[i])
    /\ \A i \in 1..(Len(src) - 1) : src[i].closed

NumClosed(src) == Cardinality({i \in DOMAIN src : src[i].closed})

\* the record count the claim states: the number of marker lines, one fewer
\* when the final entry has no closing line
ClaimedCount(src) ==
    IF src[Len(src)].closed THEN MarkerLines(FileLines(src))
    ELSE MarkerLines(FileLines(src)) - 1

LineStep == p_tool \in LineTools /\ p_pos' = p_pos + 1
Consumed == FileLines(p_src)[p_pos + 1]

HasDoiOrTitle(r) == Truthy(r, "doi") \/ Truthy(r, "title")

C9_NoUrlPrefixStored ==
    \A i \in DOMAIN p_out :
        (p_tool # "bibtex2csv" /\ "doi" \in DOMAIN p_out[i])
            => ~HasUrlPrefix(p_out[i]["doi"])

\* ---- C10
FallbackTools == {"bibtex2csv", "subject_vibe", "tf_idf",
                  "short_description_and_category"}

\* the cleaning a tool applies to a title
CleanedBy(tool, value) ==
    IF tool = "tf_idf" THEN tfidf_clean_text(value) ELSE clean_text(value)

\* a value without braces or quotes, which every field pattern captures whole
Plain(value) == \A i \in 1..Len(value) : Ch(value, i) \notin {"{", "}", "\""}

\* C10: when every entry of the file was emitted, the title of a record is
\* the cleaned title field of its entry whenever the entry has one, and the
\* cleaned booktitle only when the entry has no title field.
C10_TitleFallback ==
    (p_pc = "done" /\ p_tool \in FallbackTools
        /\ Len(p_out) = Len(Entries(p_src))) =>
        \A i \in DOMAIN p_out :
            LET d == EntryDict(Entries(p_src)[i])
            IN /\ ("title" \in DOMAIN d /\ Plain(d["title"])) =>
                     p_out[i]["title"] = CleanedBy(p_tool, d["title"])
               /\ ("title" \notin DOMAIN d /\ Truthy(p_out[i], "title")) =>
                     /\ "booktitle" \in DOMAIN d
                     /\ p_out[i]["title"] = CleanedBy(p_tool, d["booktitle"])

\* ---- C11
CleanedFields == {"title", "abstract", "keywords"}

\* C11: no stored title, abstract or keywords value of an emitted record of
\* any parser contains a backslash followed by a letter.
C11_NoRawMarkupStored ==
    \A i \in DOMAIN p_out :
        \A f \in CleanedFields \cap DOMAIN p_out[i] :
            ~HasBackslashLetter(p_out[i][f])

(***************************************************************************)
(* tf_idf: tokenize, create_stopwords and the vocabulary of calculate_tfidf *)
(***************************************************************************)
RECURSIVE SplitWords(_)
\* text.split()
SplitWords(text) ==
    LET t == LStrip(text)
        e == FindIn(t, 1, Whitespace)
    IN IF t = "" THEN <<>>
       ELSE <<Sub(t, 1, e - 1)>> \o SplitWords(Slice(t, e - 1))

LongEnough(word) == Len(word) > 2
tokenize(text) == SelectSeq(SplitWords(text), LongEnough)

create_stopwords ==
    {"the", "a", "an", "and", "or", "but", "in", "on", "at", "to", "for",
     "of", "with", "by", "from", "up", "about", "into", "through",
     "during", "before", "after", "above", "below", "to", "from", "up",
     "down", "in", "out", "on", "off", "over", "under", "again", "further",
     "then", "once", "here", "there", "when", "where", "why", "how", "all",
     "any", "both", "each", "few", "more", "most", "other", "some", "such",
     "no", "nor", "not", "only", "own", "same", "so", "than", "too",
     "very", "can", "will", "just", "should", "now", "also", "this",
     "that", "these", "those", "are", "was", "were", "been", "be", "have",
     "has", "had", "do", "does", "did", "would", "could", "should", "may",
     "might", "must", "shall", "will"}

NotStopword(word) == word \notin create_stopwords
\* the words of one document
DocWords(doc) == SelectSeq(tokenize(doc.content), NotStopword)

\* word_doc_count: for every word, the number of documents that have it
WordDocCount(tokenized) ==
    [w \in UNION {Range(tokenized[i]) : i \in DOMAIN tokenized} |->
        Cardinality({i \in DOMAIN tokenized : w \in Range(tokenized[i])})]

\* ---- the float product max_df_ratio * total_docs and its int()
\* A double is (-1)^neg * mant * 2^exp, mant a binary numeral.  A numeral is
\* handled as the sequence of its bits, least significant first.
RECURSIVE BitsOf(_)
BitsOf(s) ==
    IF s = "" THEN <<>>
    ELSE Append(BitsOf(Tail(s)), IF Head(s) = "1" THEN 1 ELSE 0)

RECURSIVE AddBits(_, _, _)
AddBits(a, b, carry) ==
    IF a = <<>> /\ b = <<>> THEN (IF carry = 1 THEN <<1>> ELSE <<>>)
    ELSE LET x == IF a = <<>> THEN 0 ELSE Head(a)
             y == IF b = <<>> THEN 0 ELSE Head(b)
             t == x + y + carry
         IN <<t % 2>> \o AddBits(IF a = <<>> THEN <<>> ELSE Tail(a),
                                 IF b = <<>> THEN <<>> ELSE Tail(b), t \div 2)

RECURSIVE MulBits(_, _)
MulBits(a, k) ==
    IF k = 0 THEN <<>>
    ELSE LET h == <<0>> \o MulBits(a, k \div 2)
         IN IF k % 2 = 1 THEN AddBits(a, h, 0) ELSE h

RECURSIVE TrimBits(_)
TrimBits(a) ==
    IF a # <<>> /\ a[Len(a)] = 0 THEN TrimBits(SubSeq(a, 1, Len(a) - 1)) ELSE a

RECURSIVE NatOfBits(_)
NatOfBits(a) == IF a = <<>> THEN 0 ELSE Head(a) + 2 * NatOfBits(Tail(a))

\* the significand of a Python float
MantissaBits == 53

\* round to nearest, ties to even, to MantissaBits significant bits:
\* <<the bits kept, the number of bits dropped>>
RoundBits(p) ==
    LET a == TrimBits(p)
        s == Len(a) - MantissaBits
    IN IF s <= 0 THEN <<a, 0>>
       ELSE LET kept == SubSeq(a, s + 1, Len(a))
                half == a[s] = 1
                sticky == \E i \in 1..(s - 1) : a[i] = 1
                up == half /\ (sticky \/ kept[1] = 1)
            IN <<IF up THEN AddBits(kept, <<1>>, 0) ELSE kept, s>>

\* int(x * k) for the float x and the int k >= 0: the product is rounded to
\* a float, int() then drops its fraction
IntOfProduct(x, k) ==
    LET q == RoundBits(MulBits(BitsOf(x.mant), k))
        e == x.exp + q[2]
        mag == IF e >= 0 THEN NatOfBits([i \in 1..e |-> 0] \o q[1])
               ELSE IF 0 - e >= Len(q[1]) THEN 0
               ELSE NatOfBits(SubSeq(q[1], 1 - e, Len(q[1])))
    IN IF x.neg THEN 0 - mag ELSE mag

\* max_df = int(max_df_ratio * total_docs)
MaxDf(ratio, total_docs) == IntOfProduct(ratio, total_docs)

\* {word for word, count in word_doc_count.items() if min_df <= count <= max_df}
Vocabulary(counts, mindf, maxdf) ==
    {w \in DOMAIN counts : mindf <= counts[w] /\ counts[w] <= maxdf}

\* ---- the corpora and parameters tried
MaxDocs == 3
LargeCorpus == 50

TvContents == {"code data", "data loop the ai", "loop  code code", ""}
Doc(text) == [content |-> text]
\* k documents with one content followed by n - k with another
TwoKinds(k, n) ==
    [i \in 1..n |-> IF i <= k THEN Doc("code data") ELSE Doc("data loop")]
Corpora ==
    SeqsUpTo(MaxDocs, {Doc(t) : t \in TvContents})
        \cup {TwoKinds(k, LargeCorpus) : k \in 0..LargeCorpus}

\* what float() makes of the texts 0.8 (the default), 0.58, 0.5, 1.0 and
\* -0.5: num/den is the decimal the caller wrote
MaxDfRatios == {
    [num |-> 4, den |-> 5, neg |-> FALSE,
     mant |-> "1100110011001100110011001100110011001100110011001101",
     exp |-> -52],
    [num |-> 29, den |-> 50, neg |-> FALSE,
     mant |-> "10010100011110101110000101000111101011100001010001111",
     exp |-> -53],
    [num |-> 1, den |-> 2, neg |-> FALSE,
     mant |-> "1",
     exp |-> -1],
    [num |-> 1, den |-> 1, neg |-> FALSE,
     mant |-> "1",
     exp |-> 0],
    [num |-> -1, den |-> 2, neg |-> TRUE,
     mant |-> "1",
     exp |-> -1]}

TvOther == <<ct_vars, dn_vars, ov_vars, p_vars, tp_vars, cv_vars, rs_vars,
            bt_vars, tl_vars,
             late_vars>>

InitVocab ==
    /\ tv_docs \in Corpora
    /\ min_df \in -1..MaxDocs
    /\ max_df_ratio \in MaxDfRatios
    /\ tokenized_docs = <<>> /\ word_doc_count = <<>> /\ vocabulary = {}
    /\ idf = <<>>
    /\ tv_pc = "tokenize"
    /\ FirstIdle /\ TpIdle /\ CvIdle /\ RsIdle /\ BtIdle /\ TlIdle /\ LateIdle

\* calculate_tfidf: tokenize all documents
TokenizeDocuments ==
    /\ tv_pc = "tokenize"
    /\ tokenized_docs' = [i \in DOMAIN tv_docs |-> DocWords(tv_docs[i])]
    /\ tv_pc' = "count"
    /\ UNCHANGED <<tv_docs, min_df, max_df_ratio, word_doc_count, vocabulary,
                   idf, TvOther>>

\* calculate_tfidf: the document frequency of every word
CountWordDocs ==
    /\ tv_pc = "count"
    /\ word_doc_count' = WordDocCount(tokenized_docs)
    /\ tv_pc' = "filter"
    /\ UNCHANGED <<tv_docs, min_df, max_df_ratio, tokenized_docs, vocabulary,
                   idf, TvOther>>

\* calculate_tfidf: filter vocabulary
FilterVocabulary ==
    /\ tv_pc = "filter"
    /\ vocabulary' = Vocabulary(word_doc_count, min_df,
                                MaxDf(max_df_ratio, Len(tv_docs)))
    /\ tv_pc' = "done"
    /\ UNCHANGED <<tv_docs, min_df, max_df_ratio, tokenized_docs,
                   word_doc_count, idf, TvOther>>

\* a plausible slip: the test of the generator is inverted
DocsWithoutTerm(documents, term) ==
    Cardinality({i \in DOMAIN documents : term \notin Range(documents[i])})

\* sum(1 for doc in documents if term in doc)
DocsContainingTerm(documents, term) ==
    Cardinality({i \in DOMAIN documents : term \in Range(documents[i])})

\* math.log(total_docs / docs_containing_term): the quotient the logarithm
\* is taken of, undefined (ZeroDivisionError) for a zero divisor
LogOfQuotient(total_docs, docs_containing_term) ==
    [defined |-> docs_containing_term # 0,
     num |-> total_docs, den |-> docs_containing_term]

\* calculate_idf(documents, vocabulary)
calculate_idf(documents, terms) ==
    [term \in terms |->
        LogOfQuotient(Len(documents), DocsContainingTerm(documents, term))]

\* calculate_tfidf: idf = calculate_idf(tokenized_docs, vocabulary)
CalculateIdf ==
    /\ tv_pc = "done"
    /\ idf' = calculate_idf(tokenized_docs, vocabulary)
    /\ tv_pc' = IF \A term \in vocabulary : idf'[term].defined
                THEN "idf" ELSE "ZeroDivisionError"
    /\ UNCHANGED <<tv_docs, min_df, max_df_ratio, tokenized_docs,
                   word_doc_count, vocabulary, TvOther>>

NextVocab ==
    TokenizeDocuments \/ CountWordDocs \/ FilterVocabulary \/ CalculateIdf

SpecVocab == InitVocab /\ [][NextVocab]_vars

\* ---- C12
\* the terms of the corpus and the number of documents containing a term
IsTerm(word) == LongEnough(word) /\ NotStopword(word)
DocsContaining(word) ==
    Cardinality({i \in DOMAIN tv_docs :
                    word \in Range(SplitWords(tv_docs[i].content))})
CorpusTerms ==
    {w \in UNION {Range(SplitWords(tv_docs[i].content)) : i \in DOMAIN tv_docs} :
        IsTerm(w)}

\* count <= max_df_ratio * total_docs, in exact arithmetic
WithinRatio(count, ratio, total_docs) ==
    count * ratio.den <= ratio.num * total_docs

\* C12: a term is in the vocabulary if and only if the number of documents
\* containing it lies in [min_df, max_df_ratio * total_docs] inclusive; with
\* 3 documents, min_df = 2 and max_df_ratio = 0.8 a term present in all 3 is
\* excluded.
C12_VocabularyInterval ==
    tv_pc = "done" =>
        /\ vocabulary \subseteq CorpusTerms
        /\ \A w \in CorpusTerms :
              w \in vocabulary <=>
                  /\ min_df <= DocsContaining(w)
                  /\ WithinRatio(DocsContaining(w), max_df_ratio, Len(tv_docs))

\* ---- C24
\* log(num / den) >= 0: the quotient is at least 1
NonNegativeLog(q) == q.den > 0 /\ q.num >= q.den

\* C24: for every corpus, min_df (zero and negative included) and
\* max_df_ratio, every term handed to calculate_idf is in at least one
\* tokenized document, calculate_idf never divides by zero, and every IDF
\* value is at least 0.
C24_IdfDefined ==
    /\ tv_pc = "done" =>
          \A term \in vocabulary :
              \E i \in DOMAIN tokenized_docs : term \in Range(tokenized_docs[i])
    /\ tv_pc # "ZeroDivisionError"
    /\ tv_pc = "idf" =>
          /\ DOMAIN idf = vocabulary
          /\ \A term \in DOMAIN idf :
                idf[term].defined /\ NonNegativeLog(idf[term])

\* C24 witness: with min_df below 1 calculate_idf has returned an IDF of
\* log(1) for a term of every document and a larger one for another term.
C24_Witness ==
    /\ tv_pc = "idf" /\ min_df < 1
    /\ Len(tv_docs) = 2
    /\ \E t \in DOMAIN idf : idf[t].num = idf[t].den
    /\ \E t \in DOMAIN idf : idf[t].num > idf[t].den

(***************************************************************************)
(* topic_frequency: extract_topics_from_file and analyze_topic_frequency   *)
(***************************************************************************)
MaxTopicLines == 2
MaxEntries == 2

TopicLines == {"AI", " ai", "art\n", ""}
TopicEntries == {[key |-> "a1", content |-> "a painting\n"],
                 [key |-> "b2", content |-> "AI art\n"],
                 [key |-> "c3", content |-> "code\n"]}

RECURSIVE StrippedNonEmpty(_)
\* extract_topics_from_file: the stripped lines that are not empty
StrippedNonEmpty(lines) ==
    IF lines = <<>> THEN <<>>
    ELSE (IF Strip(Head(lines)) # "" THEN <<Strip(Head(lines))>> ELSE <<>>)
            \o StrippedNonEmpty(Tail(lines))

\* t in s
Contains(s, t) == \E i \in 1..(Len(s) - Len(t) + 1) : Sub(s, i, i + Len(t) - 1) = t

\* topic_to_search in content, both lower-cased unless case-sensitive
TopicInEntry(topic, entry, sensitive) ==
    IF sensitive THEN Contains(entry.content, topic)
    ELSE Contains(LowerStr(entry.content), LowerStr(topic))

\* defaultdict(int)[k] and defaultdict(list)[k]
GetCount(d, k) == IF k \in DOMAIN d THEN d[k] ELSE 0
GetList(d, k) == IF k \in DOMAIN d THEN d[k] ELSE <<>>

\* a dict lists its keys in the order of their first assignment
Inserted(order, k) ==
    IF \E i \in DOMAIN order : order[i] = k THEN order ELSE Append(order, k)

\* topic_entries[topic].append(entry)
Retain(d, topic, entry) == DictSet(d, topic, Append(GetList(d, topic), entry))

InitTopics ==
    /\ tp_lines \in SeqsUpTo(MaxTopicLines, TopicLines)
    /\ tp_entries \in SeqsUpTo(MaxEntries, TopicEntries)
    /\ case_sensitive \in BOOLEAN
    /\ topics = <<>>
    /\ topic_frequency = EmptyDict /\ topic_entries = EmptyDict
    /\ tp_e = 0 /\ tp_t = 0
    /\ topic_order = <<>> /\ sorted_topics = <<>>
    /\ tp_pc = "load"
    /\ FirstIdle /\ TvIdle /\ CvIdle /\ RsIdle /\ BtIdle /\ TlIdle /\ LateIdle

TpOther == <<ct_vars, dn_vars, ov_vars, p_vars, tv_vars, cv_vars, rs_vars,
            bt_vars, tl_vars,
             late_vars>>

\* main: the topics file is read
ExtractTopics ==
    /\ tp_pc = "load"
    /\ topics' = StrippedNonEmpty(tp_lines)
    /\ tp_pc' = "analyze"
    /\ UNCHANGED <<tp_lines, tp_entries, case_sensitive, topic_frequency,
                   topic_entries, tp_e, tp_t, topic_order,
                   sorted_topics, TpOther>>

\* analyze_topic_frequency: one topic tried on the current entry
TryTopic ==
    /\ tp_pc = "analyze"
    /\ tp_e < Len(tp_entries) /\ tp_t < Len(topics)
    /\ LET entry == tp_entries[tp_e + 1]
           topic == topics[tp_t + 1]
       IN IF TopicInEntry(topic, entry, case_sensitive)
          THEN /\ topic_frequency' =
                      DictSet(topic_frequency, topic,
                              GetCount(topic_frequency, topic) + 1)
               /\ topic_entries' = Retain(topic_entries, topic, entry)
               /\ topic_order' = Inserted(topic_order, topic)
          ELSE UNCHANGED <<topic_frequency, topic_entries, topic_order>>
    /\ tp_t' = tp_t + 1
    /\ UNCHANGED <<tp_lines, topics, tp_entries, case_sensitive, tp_e, tp_pc,
                   sorted_topics, TpOther>>

\* analyze_topic_frequency: the inner loop is over, the next entry is taken
NextEntry ==
    /\ tp_pc = "analyze"
    /\ tp_e < Len(tp_entries) /\ tp_t = Len(topics)
    /\ tp_e' = tp_e + 1
    /\ tp_t' = 0
    /\ UNCHANGED <<tp_lines, topics, tp_entries, case_sensitive,
                   topic_frequency, topic_entries, tp_pc, topic_order,
                   sorted_topics, TpOther>>

\* analyze_topic_frequency returns
AnalyzeReturn ==
    /\ tp_pc = "analyze"
    /\ tp_e = Len(tp_entries)
    /\ tp_pc' = "done"
    /\ UNCHANGED <<tp_lines, topics, tp_entries, case_sensitive,
                   topic_frequency, topic_entries, tp_e, tp_t, topic_order,
                   sorted_topics, TpOther>>

\* topic_frequency.items(): the (topic, count) pairs in insertion order
DictItems(d, order) == [i \in DOMAIN order |-> <<order[i], d[order[i]]>>]

\* a plausible slip: a pair also goes before the pairs of equal count
TiesFirst(x, y) == x[2] >= y[2]

\* key=lambda x: x[1], reverse=True: x goes before y
SortsBefore(x, y) == x[2] > y[2]

RECURSIVE InsertSorted(_, _)
\* x is placed before the first pair it goes before
InsertSorted(q, x) ==
    IF q = <<>> THEN <<x>>
    ELSE IF SortsBefore(x, Head(q)) THEN <<x>> \o q
    ELSE <<Head(q)>> \o InsertSorted(Tail(q), x)

RECURSIVE SortedFrom(_, _)
\* sorted(...): the pairs are placed one after the other
SortedFrom(placed, rest) ==
    IF rest = <<>> THEN placed
    ELSE SortedFrom(InsertSorted(placed, Head(rest)), Tail(rest))

\* if freq > 0
HasMatches(pair) == pair[2] > 0

\* main, which has returned before on an empty topic list or bibliography:
\* the pairs are sorted and those without a match dropped
SortTopics ==
    /\ tp_pc = "done"
    /\ topics # <<>> /\ tp_entries # <<>>
    /\ sorted_topics' =
          SelectSeq(SortedFrom(<<>>, DictItems(topic_frequency, topic_order)),
                    HasMatches)
    /\ tp_pc' = "sorted"
    /\ UNCHANGED <<tp_lines, topics, tp_entries, case_sensitive,
                   topic_frequency, topic_entries, tp_e, tp_t, topic_order,
                   TpOther>>

NextTopics ==
    ExtractTopics \/ TryTopic \/ NextEntry \/ AnalyzeReturn \/ SortTopics

SpecTopics == InitTopics /\ [][NextTopics]_vars

\* ---- C13
\* the entries whose raw text contains the topic, in entry order
RECURSIVE MatchingEntries(_, _)
MatchingEntries(es, topic) ==
    IF es = <<>> THEN <<>>
    ELSE (IF TopicInEntry(topic, Head(es), case_sensitive)
          THEN <<Head(es)>> ELSE <<>>) \o MatchingEntries(Tail(es), topic)

\* C13: for every topic list, repeated topic lines included, the count of a
\* topic is the number of entries whose raw text contains it as a substring
\* (case-insensitively unless case-sensitive mode is set) and the retained
\* list is exactly those entries, each once, in entry order.
C13_TopicCounts ==
    tp_pc = "done" =>
        \A k \in DOMAIN topics :
            /\ GetList(topic_entries, topics[k])
                  = MatchingEntries(tp_entries, topics[k])
            /\ GetCount(topic_frequency, topics[k])
                  = Len(MatchingEntries(tp_entries, topics[k]))

\* ---- C25
\* where a topic is first seen: the first entry that holds it and, in that
\* entry, its first place in the topic list
FirstSeen(topic) ==
    LET hits == {<<e, t>> \in (DOMAIN tp_entries) \X (DOMAIN topics) :
                    /\ topics[t] = topic
                    /\ TopicInEntry(topic, tp_entries[e], case_sensitive)}
    IN CHOOSE h \in hits :
          \A g \in hits : h[1] < g[1] \/ (h[1] = g[1] /\ h[2] <= g[2])
SeenBefore(a, b) ==
    FirstSeen(a)[1] < FirstSeen(b)[1]
        \/ (FirstSeen(a)[1] = FirstSeen(b)[1] /\ FirstSeen(a)[2] < FirstSeen(b)[2])
Matched(topic) ==
    \E e \in DOMAIN tp_entries :
        TopicInEntry(topic, tp_entries[e], case_sensitive)

\* C25: the list main displays and exports is in descending order of count,
\* topics of equal count stand in the order in which they were first seen,
\* and the list holds exactly the topics with a match, each once, with its
\* count.
C25_DisplayOrder ==
    tp_pc = "sorted" =>
        /\ \A i, j \in DOMAIN sorted_topics :
              i < j =>
                 /\ sorted_topics[i][2] >= sorted_topics[j][2]
                 /\ sorted_topics[i][1] # sorted_topics[j][1]
                 /\ (sorted_topics[i][2] = sorted_topics[j][2]
                        => SeenBefore(sorted_topics[i][1], sorted_topics[j][1]))
        /\ \A i \in DOMAIN sorted_topics :
              /\ sorted_topics[i][2] > 0
              /\ sorted_topics[i][2] = topic_frequency[sorted_topics[i][1]]
        /\ {sorted_topics[i][1] : i \in DOMAIN sorted_topics}
              = {t \in Range(topics) : Matched(t)}

\* C25 witness: two topics of equal count are listed in the order in which
\* they were first seen, which is not their order in the topic list.
C25_Witness ==
    /\ tp_pc = "sorted"
    /\ Len(sorted_topics) = 2
    /\ sorted_topics[1][2] = sorted_topics[2][2]
    /\ sorted_topics[1][1] = topics[2]
    /\ sorted_topics[2][1] = topics[1]

(***************************************************************************)
(* JSON bodies and the Python operations applied to them                   *)
(***************************************************************************)
\* a parsed JSON value, tagged with its Python type
JNull == [t |-> "null"]
JStr(x) == [t |-> "str", v |-> x]
JList(q) == [t |-> "list", v |-> q]
JObj(f) == [t |-> "obj", v |-> f]

\* the outcome of an expression: a value, or the exception it raises
Value(x) == [ok |-> TRUE, v |-> x]
Raises(e) == [ok |-> FALSE, exc |-> e]

\* x[key] for a string key
Subscript(x, key) ==
    IF x.t = "obj"
    THEN (IF key \in DOMAIN x.v THEN Value(x.v[key]) ELSE Raises("KeyError"))
    ELSE Raises("TypeError")

\* x.get(key, default)
DictGet(x, key, default) ==
    IF x.t = "obj"
    THEN Value(IF key \in DOMAIN x.v THEN x.v[key] ELSE default)
    ELSE Raises("AttributeError")

\* x[0]
First(x) ==
    CASE x.t = "list" -> IF x.v = <<>> THEN Raises("IndexError") ELSE Value(x.v[1])
      [] x.t = "str" -> IF x.v = "" THEN Raises("IndexError")
                        ELSE Value(JStr(Ch(x.v, 1)))
      [] x.t = "obj" -> Raises("KeyError")
      [] OTHER -> Raises("TypeError")

\* x.lower()
LowerOfValue(x) ==
    IF x.t = "str" THEN Value(JStr(LowerStr(x.v))) ELSE Raises("AttributeError")

\* the next step of a chain of operations: an exception ends the chain
Then(r, Op(_)) == IF r.ok THEN Op(r.v) ELSE r

(***************************************************************************)
(* What requests.get can bring back                                        *)
(***************************************************************************)
\* an HTTP response with a JSON body
Answer(status, body) == [kind |-> "response", status |-> status, json |-> Value(body)]
\* an HTTP response whose body is no JSON: response.json() raises
\* JSONDecodeError, a ValueError that newer versions of requests also make
\* a RequestException
NotJson(status, exc) == [kind |-> "response", status |-> status, json |-> Raises(exc)]
\* no response: requests.get raises
ConnectionFailed == [kind |-> "failed", status |-> 0, json |-> Raises("RequestException")]

Title(t) == JObj([title |-> t])
Work(t, doi) == JObj([title |-> t, DOI |-> doi])
Message(m) == JObj([message |-> m])

\* the bodies of the works/{doi} route
WorkBodies ==
    { Message(Title(JList(<<JStr("A Paper")>>))),
      Message(JObj(<<>>)),                        \* no title key
      Message(Title(JList(<<>>))),
      Message(Title(JNull)),
      Message(Title(JStr("A Paper"))),
      Message(JNull),
      Message(JList(<<>>)),
      JObj(<<>>),                                 \* no message key
      JList(<<>>),
      JNull }

HttpOk == 200
HttpNotFound == 404
HttpServerError == 500

WorkResponses ==
    {Answer(HttpOk, b) : b \in WorkBodies}
        \cup {Answer(HttpNotFound, Message(JNull)), Answer(HttpServerError, JNull),
              NotJson(HttpOk, "ValueError"), NotJson(HttpOk, "RequestException"),
              NotJson(HttpServerError, "ValueError"), ConnectionFailed}

(***************************************************************************)
(* check_dois_valid.check_doi                                              *)
(***************************************************************************)
Checked(doi, valid, text) == [doi |-> doi, valid |-> valid, text |-> text]

\* data['message'].get('title', ['Unknown Title'])[0]
TitleOfWork(data) ==
    LET GetTitle(msg) == DictGet(msg, "title", JList(<<JStr("Unknown Title")>>))
    IN Then(Then(Subscript(data, "message"), GetTitle), First)

\* check_doi(doi), given what the request brings back
check_doi(doi, resp) ==
    IF resp.kind = "failed" THEN Checked(doi, FALSE, JStr("Request Error"))
    ELSE IF resp.status = HttpOk
    THEN LET title == Then(resp.json, TitleOfWork)
         IN IF title.ok THEN Checked(doi, TRUE, title.v)
            ELSE IF title.exc = "RequestException"
            THEN Checked(doi, FALSE, JStr("Request Error"))
            ELSE Checked(doi, FALSE, JStr("Error"))
    ELSE Checked(doi, FALSE, JStr("HTTP Error"))

(***************************************************************************)
(* check_dois_valid.main                                                   *)
(***************************************************************************)
MaxDois == 2
MaxWorkers == 2

DoiFileLines == {"10.1/a\n", "https://doi.org/10.1/b\n", " \n"}
Readable(lines) == [state |-> "ok", lines |-> lines]
Unreadable(why) == [state |-> why, lines |-> <<>>]
InputFiles(lines) ==
    {Readable(q) : q \in lines} \cup {Unreadable("missing"), Unreadable("undecodable")}

\* the answers tried in a batch
BatchResponses ==
    { Answer(HttpOk, Message(Title(JList(<<JStr("A Paper")>>)))),
      Answer(HttpOk, Message(JNull)),
      Answer(HttpNotFound, Message(JNull)),
      ConnectionFailed }

RECURSIVE CleanedLines(_)
\* [clean_doi(line) for line in f if line.strip()]
CleanedLines(lines) ==
    IF lines = <<>> THEN <<>>
    ELSE (IF Strip(Head(lines)) # "" THEN <<clean_doi(Head(lines))>> ELSE <<>>)
            \o CleanedLines(Tail(lines))

Queued == [state |-> "queued", result |-> Checked("", FALSE, JNull)]
Running == [state |-> "running", result |-> Checked("", FALSE, JNull)]

\* a plausible slip: a finished call never marks its future as done
NeverDone(result) == [state |-> "running", result |-> result]

\* a future whose call has returned
Done(result) == [state |-> "done", result |-> result]

\* a plausible slip: the futures are taken as they complete
AsCompleted(n) == IF Len(cv_completed) > n THEN cv_completed[n + 1] ELSE n + 1

\* for i, future in enumerate(futures): the future taken after n results
FutureToCollect(n) == n + 1

\* sum(1 for _, valid, _ in results if valid)
ValidCount(rs) == Cardinality({i \in DOMAIN rs : rs[i].valid})

\* the rows after the header: doi, 'Yes' or 'No', title or error
CsvRows(rs) ==
    [i \in DOMAIN rs |-> <<rs[i].doi, IF rs[i].valid THEN "Yes" ELSE "No", rs[i].text>>]

InitValidate ==
    /\ cv_file \in InputFiles(SeqsUpTo(MaxDois, DoiFileLines))
    /\ cv_out_ok \in BOOLEAN
    /\ concurrent \in 1..MaxWorkers
    /\ cv_dois = <<>> /\ futures = <<>> /\ cv_in_flight = {}
    /\ cv_issued = <<>> /\ cv_completed = <<>> /\ cv_sleeps = 0
    /\ results = <<>> /\ valid_count = 0 /\ invalid_count = 0
    /\ cv_csv = <<>> /\ cv_summary = <<>>
    /\ cv_exit = "running"
    /\ cv_pc = "read"
    /\ FirstIdle /\ TvIdle /\ TpIdle /\ RsIdle /\ BtIdle /\ TlIdle /\ LateIdle

CvOther == <<ct_vars, dn_vars, ov_vars, p_vars, tv_vars, tp_vars, rs_vars,
            bt_vars, tl_vars,
             late_vars>>

\* main: the DOI file is read; sys.exit(1) when it cannot be read or holds
\* no DOI
ReadDoiFile ==
    /\ cv_pc = "read"
    /\ IF cv_file.state # "ok" \/ CleanedLines(cv_file.lines) = <<>>
       THEN /\ cv_exit' = "1"
            /\ cv_pc' = "exit"
            /\ UNCHANGED cv_dois
       ELSE /\ cv_dois' = CleanedLines(cv_file.lines)
            /\ cv_pc' = IF concurrent > 1 THEN "submit" ELSE "loop"
            /\ UNCHANGED cv_exit
    /\ UNCHANGED <<cv_file, cv_out_ok, concurrent, futures, cv_in_flight,
                   cv_issued, cv_completed, cv_sleeps, results, valid_count,
                   invalid_count, cv_csv, cv_summary, CvOther>>

\* main thread: executor.submit(check_doi, doi) for the next doi
SubmitCall ==
    /\ cv_pc = "submit"
    /\ futures' = Append(futures, Queued)
    /\ cv_pc' = IF Len(futures') = Len(cv_dois) THEN "collect" ELSE "submit"
    /\ UNCHANGED <<cv_file, cv_out_ok, concurrent, cv_dois, cv_in_flight,
                   cv_issued, cv_completed, cv_sleeps, results, valid_count,
                   invalid_count, cv_csv, cv_summary, cv_exit, CvOther>>

\* a free worker thread takes the oldest queued call and sends its request
WorkerStart ==
    /\ cv_pc \in {"submit", "collect"}
    /\ Cardinality(cv_in_flight) < concurrent
    /\ \E i \in DOMAIN futures :
          /\ futures[i].state = "queued"
          /\ \A j \in 1..(i - 1) : futures[j].state # "queued"
          /\ futures' = [futures EXCEPT ![i] = Running]
          /\ cv_in_flight' = cv_in_flight \cup {i}
          /\ cv_issued' = Append(cv_issued, i)
    /\ UNCHANGED <<cv_file, cv_out_ok, concurrent, cv_dois, cv_completed,
                   cv_sleeps, results, valid_count, invalid_count, cv_csv,
                   cv_summary, cv_exit, cv_pc, CvOther>>

\* a worker thread: its request is answered and check_doi returns
WorkerReturn ==
    /\ cv_pc \in {"submit", "collect"}
    /\ \E i \in cv_in_flight, resp \in BatchResponses :
          /\ futures' = [futures EXCEPT ![i] = Done(check_doi(cv_dois[i], resp))]
          /\ cv_in_flight' = cv_in_flight \ {i}
          /\ cv_completed' = Append(cv_completed, i)
    /\ UNCHANGED <<cv_file, cv_out_ok, concurrent, cv_dois, cv_issued,
                   cv_sleeps, results, valid_count, invalid_count, cv_csv,
                   cv_summary, cv_exit, cv_pc, CvOther>>

\* main thread: future.result() of the next future, appended to results
CollectResult ==
    /\ cv_pc = "collect"
    /\ LET k == FutureToCollect(Len(results))
       IN /\ k \in DOMAIN futures
          /\ futures[k].state = "done"
          /\ results' = Append(results, futures[k].result)
    /\ cv_pc' = IF Len(results') = Len(futures) THEN "count" ELSE "collect"
    /\ UNCHANGED <<cv_file, cv_out_ok, concurrent, cv_dois, futures,
                   cv_in_flight, cv_issued, cv_completed, cv_sleeps,
                   valid_count, invalid_count, cv_csv, cv_summary, cv_exit,
                   CvOther>>

\* a plausible slip: the pause is left out and the loop goes on at once
WithoutPause(n, total) == IF n = total THEN "count" ELSE "loop"

\* sequential loop: where main is after results.append, whichever doi it was
AfterResult(n, total) == "sleep"

\* sequential loop: check_doi(doi) sends its request
SequentialRequest ==
    /\ cv_pc = "loop"
    /\ cv_in_flight' = cv_in_flight \cup {Len(results) + 1}
    /\ cv_issued' = Append(cv_issued, Len(results) + 1)
    /\ cv_pc' = "wait"
    /\ UNCHANGED <<cv_file, cv_out_ok, concurrent, cv_dois, futures,
                   cv_completed, cv_sleeps, results, valid_count,
                   invalid_count, cv_csv, cv_summary, cv_exit, CvOther>>

\* sequential loop: the request is answered, check_doi returns and the
\* result is appended
SequentialRecord ==
    /\ cv_pc = "wait"
    /\ \E resp \in BatchResponses :
          results' = Append(results, check_doi(cv_dois[Len(results) + 1], resp))
    /\ cv_in_flight' = {}
    /\ cv_completed' = Append(cv_completed, Len(results) + 1)
    /\ cv_pc' = AfterResult(Len(results'), Len(cv_dois))
    /\ UNCHANGED <<cv_file, cv_out_ok, concurrent, cv_dois, futures,
                   cv_issued, cv_sleeps, valid_count, invalid_count, cv_csv,
                   cv_summary, cv_exit, CvOther>>

\* sequential loop: time.sleep(0.5), then the next doi if there is one
SequentialSleep ==
    /\ cv_pc = "sleep"
    /\ cv_sleeps' = cv_sleeps + 1
    /\ cv_pc' = IF Len(results) = Len(cv_dois) THEN "count" ELSE "loop"
    /\ UNCHANGED <<cv_file, cv_out_ok, concurrent, cv_dois, futures,
                   cv_in_flight, cv_issued, cv_completed, results,
                   valid_count, invalid_count, cv_csv, cv_summary, cv_exit,
                   CvOther>>

\* main: count valid and invalid DOIs
CountResults ==
    /\ cv_pc = "count"
    /\ valid_count' = ValidCount(results)
    /\ invalid_count' = Len(results) - ValidCount(results)
    /\ cv_pc' = "write"
    /\ UNCHANGED <<cv_file, cv_out_ok, concurrent, cv_dois, futures,
                   cv_in_flight, cv_issued, cv_completed, cv_sleeps, results,
                   cv_csv, cv_summary, cv_exit, CvOther>>

\* main: the results are written to the CSV file; open() is not guarded, so
\* its OSError ends the program with a traceback
WriteCsv ==
    /\ cv_pc = "write"
    /\ IF cv_out_ok
       THEN /\ cv_csv' = CsvRows(results)
            /\ cv_pc' = "summary"
            /\ UNCHANGED cv_exit
       ELSE /\ cv_exit' = "traceback"
            /\ cv_pc' = "exit"
            /\ UNCHANGED cv_csv
    /\ UNCHANGED <<cv_file, cv_out_ok, concurrent, cv_dois, futures,
                   cv_in_flight, cv_issued, cv_completed, cv_sleeps, results,
                   valid_count, invalid_count, cv_summary, CvOther>>

\* main: the summary with its two percentages, count / len(results) * 100
PrintSummary ==
    /\ cv_pc = "summary"
    /\ IF Len(results) = 0
       THEN /\ cv_exit' = "traceback"          \* ZeroDivisionError
            /\ UNCHANGED cv_summary
       ELSE /\ cv_summary' = << <<valid_count * 100, Len(results)>>,
                                <<invalid_count * 100, Len(results)>> >>
            /\ cv_exit' = "0"
    /\ cv_pc' = "exit"
    /\ UNCHANGED <<cv_file, cv_out_ok, concurrent, cv_dois, futures,
                   cv_in_flight, cv_issued, cv_completed, cv_sleeps, results,
                   valid_count, invalid_count, cv_csv, CvOther>>

NextValidate ==
    \/ ReadDoiFile
    \/ SubmitCall \/ WorkerStart \/ WorkerReturn \/ CollectResult
    \/ SequentialRequest \/ SequentialRecord \/ SequentialSleep
    \/ CountResults \/ WriteCsv \/ PrintSummary

SpecValidate == InitValidate /\ [][NextValidate]_vars

\* ---- C14
\* C14: in concurrent mode, whatever the order in which the workers finish,
\* results[i] is the result of the i-th submitted DOI; the counts and the CSV
\* are computed only when every result has been collected; and the worker
\* threads write nothing but their own future: results grows only by the
\* main thread appending to it.
C14_ConcurrentCollection ==
    /\ [](concurrent > 1 =>
            /\ \A i \in DOMAIN results :
                  /\ results[i].doi = cv_dois[i]
                  /\ futures[i].state = "done"
                  /\ results[i] = futures[i].result
            /\ cv_pc \in {"write", "summary"} => Len(results) = Len(cv_dois))
    /\ [][concurrent > 1 =>
            /\ (valid_count' # valid_count \/ invalid_count' # invalid_count
                  \/ cv_csv' # cv_csv) => Len(results) = Len(cv_dois)
            /\ (futures' # futures /\ cv_pc # "submit") =>
                  UNCHANGED <<results, valid_count, invalid_count, cv_csv>>
            /\ results' # results =>
                  /\ cv_pc = "collect"
                  /\ results' = Append(results, futures[Len(results) + 1].result)
       ]_vars

\* C14 witness: with two workers the second call returned before the first,
\* and both results have been collected and counted.
C14_Witness ==
    /\ concurrent > 1
    /\ cv_completed = <<2, 1>>
    /\ Len(results) = 2
    /\ cv_pc = "exit" /\ cv_exit = "0"
    /\ results[1].valid /\ ~results[2].valid
    /\ valid_count = 1

(***************************************************************************)
(* find_dois.find_doi                                                      *)
(***************************************************************************)
Items(q) == JObj([items |-> q])

\* the bodies of the works?query route
LookupBodies ==
    { Message(Items(JList(<<Work(JList(<<JStr("A Paper")>>), JStr("10.1/a"))>>))),
      Message(Items(JList(<<Work(JList(<<JStr("Other")>>), JStr("10.1/b"))>>))),
      Message(Items(JList(<<Work(JList(<<JStr("A Paper")>>), JNull)>>))),
      Message(Items(JList(<<Title(JList(<<JStr("A Paper")>>))>>))),   \* no DOI key
      Message(Items(JList(<<JObj([DOI |-> JStr("10.1/a")])>>))),      \* no title key
      Message(Items(JList(<<Work(JList(<<>>), JStr("10.1/a"))>>))),
      Message(Items(JList(<<Work(JList(<<JNull>>), JStr("10.1/a"))>>))),
      Message(Items(JList(<<Work(JNull, JStr("10.1/a"))>>))),
      Message(Items(JList(<<Work(JStr("A Paper"), JStr("10.1/a"))>>))),
      Message(Items(JList(<<JNull>>))),
      Message(Items(JList(<<JStr("10.1/a")>>))),
      Message(Items(JList(<<>>))),
      Message(Items(JNull)),
      Message(Items(JObj(<<>>))),
      Message(Items(JStr("none"))) }

LookupResponses ==
    {Answer(HttpOk, b) : b \in LookupBodies \cup WorkBodies}
        \cup WorkResponses

\* the exceptions find_doi handles, and what it returns for each
FindDoiHandled == {"RequestException", "KeyError", "ValueError", "IndexError"}
FindDoiMessage(exc) ==
    IF exc = "RequestException" THEN JStr("Error fetching DOI")
    ELSE JStr("Error processing response")

\* if not x
Falsy(x) ==
    \/ x.t = "null"
    \/ x.t = "str" /\ x.v = ""
    \/ x.t \in {"list", "obj"} /\ x.v = <<>>

\* response.raise_for_status()
RaiseForStatus(resp) ==
    IF resp.kind = "failed" \/ resp.status >= 400
    THEN Raises("RequestException") ELSE resp.json

\* the try block of find_doi
FindDoiBody(resp) ==
    LET GetMessage(data) == Subscript(data, "message")
        GetItems(msg) == Subscript(msg, "items")
        GetTitle(best) == DictGet(best, "title", JList(<<JStr("")>>))
        GetDoi(best) == DictGet(best, "DOI", JStr("DOI not found"))
        items == Then(Then(RaiseForStatus(resp), GetMessage), GetItems)
    IN IF ~items.ok THEN items
       ELSE IF Falsy(items.v) THEN Value(JStr("DOI not found"))
       ELSE LET best_match == First(items.v)
                best_title == Then(Then(Then(best_match, GetTitle), First),
                                   LowerOfValue)
            IN IF ~best_title.ok THEN best_title
               ELSE Then(best_match, GetDoi)

\* find_doi(title), given what the request brings back: the value returned
\* or the exception that leaves the function
find_doi(resp) ==
    LET r == FindDoiBody(resp)
    IN IF r.ok \/ r.exc \notin FindDoiHandled THEN r
       ELSE Value(FindDoiMessage(r.exc))

(***************************************************************************)
(* One call of check_doi or find_doi on one response                       *)
(***************************************************************************)
InitResponse ==
    /\ rs_fn \in {"check_doi", "find_doi"}
    /\ rs_resp \in LookupResponses
    /\ rs_out = <<>>
    /\ rs_pc = "call"
    /\ FirstIdle /\ TvIdle /\ TpIdle /\ CvIdle /\ BtIdle /\ TlIdle /\ LateIdle

RsOther == <<ct_vars, dn_vars, ov_vars, p_vars, tv_vars, tp_vars, cv_vars,
            bt_vars, tl_vars,
             late_vars>>

CallCheckDoi ==
    /\ rs_pc = "call" /\ rs_fn = "check_doi"
    /\ rs_out' = Value(check_doi("10.1/a", rs_resp))
    /\ rs_pc' = "returned"
    /\ UNCHANGED <<rs_fn, rs_resp, RsOther>>

CallFindDoi ==
    /\ rs_pc = "call" /\ rs_fn = "find_doi"
    /\ rs_out' = find_doi(rs_resp)
    /\ rs_pc' = IF rs_out'.ok THEN "returned" ELSE "raised"
    /\ UNCHANGED <<rs_fn, rs_resp, RsOther>>

NextResponse == CallCheckDoi \/ CallFindDoi

SpecResponse == InitResponse /\ [][NextResponse]_vars

\* ---- C16
\* C16: for a non-200 status, a body that is no JSON, or JSON in which an
\* expected key is absent, null, empty or of the wrong shape, find_doi and
\* check_doi return a result value and never raise.
C16_ToleratesEveryResponse == rs_pc # "raised"

\* ---- C26
\* C26: check_doi reports a DOI as valid exactly when the service answers
\* with status 200, whatever the body holds as title, and the third
\* component is the title for a valid and the error message for an invalid
\* DOI.
C26_ValidIffOk ==
    (rs_pc = "returned" /\ rs_fn = "check_doi") =>
        /\ rs_out.v.valid <=> (rs_resp.kind = "response" /\ rs_resp.status = HttpOk)
        /\ rs_out.v.doi = "10.1/a"
        /\ ~rs_out.v.valid =>
              rs_out.v.text \in {JStr("HTTP Error"), JStr("Request Error"),
                                 JStr("Error")}

(***************************************************************************)
(* find_dois.main and subject_vibe.main: one request per title / paper     *)
(***************************************************************************)
MaxTitles == 2
MaxPapers == 2

TitleLines == {"A Paper\n", " Other \n", "\n"}
Papers == {[doi |-> "10.1/a", title |-> "A Paper"],
           [doi |-> "10.1/b", title |-> "Other"]}

\* the answers a lookup meets in a batch
LookupBatchResponses ==
    { Answer(HttpOk, Message(Items(JList(<<Work(JList(<<JStr("A Paper")>>), JStr("10.1/a"))>>)))),
      Answer(HttpOk, Message(Items(JList(<<>>)))),
      Answer(HttpOk, Message(Items(JList(<<Work(JList(<<JStr("A Paper")>>), JNull)>>)))),
      Answer(HttpOk, Message(JNull)),
      Answer(HttpServerError, JNull),
      ConnectionFailed }

\* what client.chat.completions.create brings back: a completion with its
\* message content, a completion without choices, or an exception
Completion(content) == [kind |-> "completion", content |-> content]
NoChoices == [kind |-> "no_choices", content |-> JNull]
ApiError == [kind |-> "api_error", content |-> JNull]
LlmResponses == {Completion(JStr(" Databases\n")), Completion(JNull), NoChoices, ApiError}

\* subject_vibe.classify_paper: the stripped content, or the text of the
\* exception
classify_paper(resp) ==
    IF resp.kind = "completion" /\ resp.content.t = "str"
    THEN Strip(resp.content.v)
    ELSE "Error"

\* the three seconds values of --delay that behave differently
Delays == {-1, 0, 1}

\* find_dois.main: which counter a value returned by find_doi goes to
DoiKind(doi) ==
    IF /\ ~Falsy(doi)
       /\ doi \notin {JStr("DOI not found"), JStr("Error fetching DOI"),
                      JStr("Error processing response")}
    THEN "success"
    ELSE IF doi = JStr("DOI not found") THEN "not_found"
    ELSE "error"

\* find_dois.main: url is f"https://doi.org/{doi}" for a DOI that counts as
\* a success, and "" otherwise
UrlColumn(doi) ==
    IF DoiKind(doi) = "success" THEN <<HttpsPrefix, doi>> ELSE <<>>

Count(kind, rows) == Cardinality({i \in DOMAIN rows : rows[i].kind = kind})

InitBatch ==
    /\ \/ /\ bt_tool = "find_dois"
          /\ bt_file \in InputFiles(SeqsUpTo(MaxTitles, TitleLines))
          /\ bt_delay = 1
       \/ /\ bt_tool = "subject_vibe"
          /\ bt_file \in InputFiles(SeqsUpTo(MaxPapers, Papers))
          /\ bt_delay \in Delays
    /\ bt_out_ok \in BOOLEAN
    /\ bt_items = <<>> /\ bt_in_flight = {} /\ bt_issued = <<>>
    /\ bt_sleeps = 0 /\ bt_rows = <<>> /\ bt_counts = <<>>
    /\ bt_saved = FALSE /\ bt_console = <<>> /\ bt_exit = "running"
    /\ bt_pc = "read"
    /\ FirstIdle /\ TvIdle /\ TpIdle /\ CvIdle /\ RsIdle /\ TlIdle /\ LateIdle

BtOther == <<ct_vars, dn_vars, ov_vars, p_vars, tv_vars, tp_vars, cv_vars,
             rs_vars, tl_vars,
             late_vars>>

\* find_dois.main: the titles are read; sys.exit(1) when the file is missing
\* or undecodable, or holds no title
FindReadTitles ==
    /\ bt_tool = "find_dois" /\ bt_pc = "read"
    /\ IF bt_file.state # "ok" \/ StrippedNonEmpty(bt_file.lines) = <<>>
       THEN /\ bt_console' = Append(bt_console, "error")
            /\ bt_exit' = "1"
            /\ bt_pc' = "exit"
            /\ UNCHANGED bt_items
       ELSE /\ bt_items' = StrippedNonEmpty(bt_file.lines)
            /\ bt_console' = Append(bt_console, "processing")
            /\ bt_pc' = "open"
            /\ UNCHANGED bt_exit
    /\ UNCHANGED <<bt_tool, bt_file, bt_out_ok, bt_delay, bt_in_flight,
                   bt_issued, bt_sleeps, bt_rows, bt_counts, bt_saved, BtOther>>

\* find_dois.main: the output is opened before the loop, outside any try
FindOpenOutput ==
    /\ bt_tool = "find_dois" /\ bt_pc = "open"
    /\ IF bt_out_ok
       THEN /\ bt_counts' = [success |-> 0, not_found |-> 0, error |-> 0]
            /\ bt_pc' = "loop"
            /\ UNCHANGED bt_exit
       ELSE /\ bt_exit' = "traceback"
            /\ bt_pc' = "exit"
            /\ UNCHANGED bt_counts
    /\ UNCHANGED <<bt_tool, bt_file, bt_out_ok, bt_delay, bt_items,
                   bt_in_flight, bt_issued, bt_sleeps, bt_rows, bt_saved,
                   bt_console, BtOther>>

\* find_dois.main: find_doi(title) sends its request
FindRequest ==
    /\ bt_tool = "find_dois" /\ bt_pc = "loop"
    /\ bt_in_flight' = bt_in_flight \cup {Len(bt_rows) + 1}
    /\ bt_issued' = Append(bt_issued, Len(bt_rows) + 1)
    /\ bt_console' = Append(bt_console, "progress")
    /\ bt_pc' = "wait"
    /\ UNCHANGED <<bt_tool, bt_file, bt_out_ok, bt_delay, bt_items, bt_sleeps,
                   bt_rows, bt_counts, bt_saved, bt_exit, BtOther>>

\* find_dois.main: the request is answered; find_doi returns and the row is
\* written, or its exception leaves main and the with block
FindRecord ==
    /\ bt_tool = "find_dois" /\ bt_pc = "wait"
    /\ \E resp \in LookupBatchResponses :
          LET r == find_doi(resp)
              i == Len(bt_rows) + 1
          IN IF r.ok
             THEN /\ bt_rows' = Append(bt_rows, [kind |-> DoiKind(r.v),
                                                 doi |-> r.v,
                                                 url |-> UrlColumn(r.v),
                                                 title |-> bt_items[i]])
                  /\ bt_counts' = [bt_counts EXCEPT ![DoiKind(r.v)] = @ + 1]
                  /\ bt_pc' = "sleep"
                  /\ UNCHANGED <<bt_saved, bt_exit>>
             ELSE /\ bt_saved' = TRUE
                  /\ bt_exit' = "traceback"
                  /\ bt_pc' = "exit"
                  /\ UNCHANGED <<bt_rows, bt_counts>>
    /\ bt_in_flight' = {}
    /\ UNCHANGED <<bt_tool, bt_file, bt_out_ok, bt_delay, bt_items, bt_issued,
                   bt_sleeps, bt_console, BtOther>>

\* find_dois.main: time.sleep(1) after every title, then the next title or
\* the end of the with block
FindSleep ==
    /\ bt_tool = "find_dois" /\ bt_pc = "sleep"
    /\ bt_sleeps' = bt_sleeps + 1
    /\ IF Len(bt_rows) = Len(bt_items)
       THEN bt_saved' = TRUE /\ bt_pc' = "summary"
       ELSE bt_pc' = "loop" /\ UNCHANGED bt_saved
    /\ UNCHANGED <<bt_tool, bt_file, bt_out_ok, bt_delay, bt_items,
                   bt_in_flight, bt_issued, bt_rows, bt_counts, bt_console,
                   bt_exit, BtOther>>

\* find_dois.main: the summary
FindSummary ==
    /\ bt_tool = "find_dois" /\ bt_pc = "summary"
    /\ bt_console' = Append(bt_console, "summary")
    /\ bt_exit' = "0"
    /\ bt_pc' = "exit"
    /\ UNCHANGED <<bt_tool, bt_file, bt_out_ok, bt_delay, bt_items,
                   bt_in_flight, bt_issued, bt_sleeps, bt_rows, bt_counts,
                   bt_saved, BtOther>>

\* subject_vibe.main: the papers are extracted; main returns when the file
\* is missing or holds no paper
ClassifyLoad ==
    /\ bt_tool = "subject_vibe" /\ bt_pc = "read"
    /\ IF bt_file.state = "missing" \/ bt_file.lines = <<>>
       THEN /\ bt_console' = Append(bt_console, "error")
            /\ bt_exit' = "0"
            /\ bt_pc' = "exit"
            /\ UNCHANGED bt_items
       ELSE /\ bt_items' = bt_file.lines
            /\ bt_console' = Append(bt_console, "processing")
            /\ bt_pc' = "loop"
            /\ UNCHANGED bt_exit
    /\ UNCHANGED <<bt_tool, bt_file, bt_out_ok, bt_delay, bt_in_flight,
                   bt_issued, bt_sleeps, bt_rows, bt_counts, bt_saved, BtOther>>

\* subject_vibe.main: classify_paper sends its request
ClassifyRequest ==
    /\ bt_tool = "subject_vibe" /\ bt_pc = "loop"
    /\ bt_in_flight' = bt_in_flight \cup {Len(bt_rows) + 1}
    /\ bt_issued' = Append(bt_issued, Len(bt_rows) + 1)
    /\ bt_pc' = "wait"
    /\ UNCHANGED <<bt_tool, bt_file, bt_out_ok, bt_delay, bt_items, bt_sleeps,
                   bt_rows, bt_counts, bt_saved, bt_console, bt_exit, BtOther>>

\* subject_vibe.main: the request is answered, classify_paper returns and
\* the result is appended
ClassifyRecord ==
    /\ bt_tool = "subject_vibe" /\ bt_pc = "wait"
    /\ \E resp \in LlmResponses :
          LET i == Len(bt_rows) + 1
          IN bt_rows' = Append(bt_rows,
                 [DOI |-> bt_items[i].doi, Title |-> bt_items[i].title,
                  Predicted_Course |-> classify_paper(resp)])
    /\ bt_in_flight' = {}
    /\ bt_pc' = IF Len(bt_rows') < Len(bt_items) THEN "sleep" ELSE "save"
    /\ UNCHANGED <<bt_tool, bt_file, bt_out_ok, bt_delay, bt_items, bt_issued,
                   bt_sleeps, bt_counts, bt_saved, bt_console, bt_exit,
                   BtOther>>

\* subject_vibe.main: time.sleep(args.delay) between two papers; a negative
\* delay raises ValueError, which nothing catches
ClassifySleep ==
    /\ bt_tool = "subject_vibe" /\ bt_pc = "sleep"
    /\ IF bt_delay < 0
       THEN /\ bt_exit' = "traceback"
            /\ bt_pc' = "exit"
            /\ UNCHANGED bt_sleeps
       ELSE /\ bt_sleeps' = bt_sleeps + 1
            /\ bt_pc' = "loop"
            /\ UNCHANGED bt_exit
    /\ UNCHANGED <<bt_tool, bt_file, bt_out_ok, bt_delay, bt_items,
                   bt_in_flight, bt_issued, bt_rows, bt_counts, bt_saved,
                   bt_console, BtOther>>

\* subject_vibe.main: the results are saved and summarised inside one try
ClassifySave ==
    /\ bt_tool = "subject_vibe" /\ bt_pc = "save"
    /\ IF bt_out_ok
       THEN /\ bt_saved' = TRUE
            /\ bt_console' = bt_console \o <<"saved", "summary">>
       ELSE /\ bt_console' = Append(bt_console, "error")
            /\ UNCHANGED bt_saved
    /\ bt_exit' = "0"
    /\ bt_pc' = "exit"
    /\ UNCHANGED <<bt_tool, bt_file, bt_out_ok, bt_delay, bt_items,
                   bt_in_flight, bt_issued, bt_sleeps, bt_rows, bt_counts,
                   BtOther>>

NextBatch ==
    \/ FindReadTitles \/ FindOpenOutput \/ FindRequest \/ FindRecord
    \/ FindSleep \/ FindSummary
    \/ ClassifyLoad \/ ClassifyRequest \/ ClassifyRecord \/ ClassifySleep
    \/ ClassifySave

\* every batch of requests: the DOI validation, the DOI lookup by title and
\* the classification of papers
InitCalls == InitValidate \/ InitBatch
NextCalls == NextValidate \/ NextBatch
SpecCalls == InitCalls /\ [][NextCalls]_vars

\* ---- C15
\* the loop of the tool at hand has ended with one request and one result
\* per item, in the order of the items
OnePerItem(items, issued, rows) ==
    /\ Len(rows) = Len(items)
    /\ issued = [i \in 1..Len(items) |-> i]

\* C15: in every batch loop each input item causes exactly one request and
\* exactly one result, a failed call is recorded as the failure result of
\* its item and the later items are still processed: when the program ends
\* after reading a non-empty input, the number of results equals the number
\* of items.
C15_OneResultPerItem ==
    /\ cv_pc = "exit" /\ cv_dois # <<>>
          => /\ Len(results) = Len(cv_dois)
             /\ Len(cv_issued) = Len(cv_dois)
             /\ \A i \in DOMAIN results : results[i].doi = cv_dois[i]
    /\ bt_pc = "exit" /\ bt_items # <<>>
          => /\ OnePerItem(bt_items, bt_issued, bt_rows)
             /\ bt_tool = "find_dois"
                   => \A i \in DOMAIN bt_rows : bt_rows[i].title = bt_items[i]
             /\ bt_tool = "subject_vibe"
                   => \A i \in DOMAIN bt_rows : bt_rows[i].DOI = bt_items[i].doi

\* ---- C27
\* what holds of find_dois in every state: the counters add up to the number
\* of rows written, the rows are those of the first input titles in input
\* order, and a row has a URL if and only if it was counted as a success
FindDoisRowsSoFar ==
    (bt_tool = "find_dois" /\ bt_counts # <<>>) =>
        /\ bt_counts.success + bt_counts.not_found + bt_counts.error
              = Len(bt_rows)
        /\ Len(bt_rows) <= Len(bt_items)
        /\ \A i \in DOMAIN bt_rows : bt_rows[i].title = bt_items[i]
        /\ \A k \in DOMAIN bt_counts : bt_counts[k] = Count(k, bt_rows)
        /\ \A i \in DOMAIN bt_rows :
              bt_rows[i].url # <<>> <=> bt_rows[i].kind = "success"

\* C27: in find_dois, whatever the lookups bring back, the three counters
\* add up to the number of titles processed, one row is written for each
\* input title, in input order, and the URL column of a row is not empty if
\* and only if its title was counted as a success.
C27_CountersAndRows ==
    /\ FindDoisRowsSoFar
    /\ (bt_tool = "find_dois" /\ bt_counts # <<>> /\ bt_pc = "exit") =>
          /\ Len(bt_rows) = Len(bt_items)
          /\ bt_counts.success + bt_counts.not_found + bt_counts.error
                = Len(bt_items)

\* ---- C20
\* requests are sent one by one, in the order of the items
OneByOne(in_flight, issued, recorded, sleeps) ==
    /\ Cardinality(in_flight) <= 1
    /\ issued = [i \in 1..Len(issued) |-> i]
    /\ Len(recorded) <= Len(issued) /\ Len(issued) <= Len(recorded) + 1
    /\ Len(issued) <= sleeps + 1

\* a request is sent in this step
Sends(issued, issued_next) == Len(issued_next) = Len(issued) + 1

\* a request is sent only when none is in flight, every earlier result is
\* recorded and every earlier pause is over
SendsInTurn(in_flight, issued, issued_next, recorded, sleeps) ==
    Sends(issued, issued_next)
        => (in_flight = {} /\ Len(recorded) = Len(issued) /\ sleeps = Len(issued))

\* C20: when concurrency is not requested, the request for item i+1 is
\* never sent before the result of item i is recorded, at most one request
\* is in flight at any time, and a call of time.sleep with the delay of the
\* tool has returned between two consecutive requests.
C20_StrictlySequential ==
    /\ []((concurrent <= 1) => OneByOne(cv_in_flight, cv_issued, results, cv_sleeps))
    /\ []OneByOne(bt_in_flight, bt_issued, bt_rows, bt_sleeps)
    /\ [][(concurrent <= 1) => SendsInTurn(cv_in_flight, cv_issued, cv_issued',
                                           results, cv_sleeps)]_vars
    /\ [][SendsInTurn(bt_in_flight, bt_issued, bt_issued', bt_rows, bt_sleeps)]_vars

\* check_dois_valid without -c has sent its second request after the first
\* result and the pause
C20_Witness ==
    /\ concurrent = 1 /\ cv_issued = <<1, 2>> /\ cv_in_flight = {2}
    /\ Len(results) = 1 /\ cv_sleeps = 1

(***************************************************************************)
(* The main function of each tool, from its inputs to its exit             *)
(***************************************************************************)
MaxFound == 2

Tools == {"doi_overlap", "set_of_dois", "set_of_DOIs", "check_dois_valid",
          "find_dois", "bibtex2csv", "tf_idf", "topic_frequency",
          "subject_vibe", "short_description_and_category", "springer_crawl"}

\* the tools whose -o is optional and has no default
OptionalOutput == {"set_of_dois", "set_of_DOIs", "topic_frequency"}

\* springer_crawl reads no file
InputStates(tool) ==
    IF tool = "springer_crawl" THEN {"ok"} ELSE {"missing", "undecodable", "ok"}

OutputStates(tool) ==
    IF tool = "doi_overlap" THEN {"none"}
    ELSE IF tool \in OptionalOutput THEN {"none", "writable", "unwritable"}
    ELSE {"writable", "unwritable"}

\* n / d * 100, as the pair of its numerator and denominator
Divide(n, d) ==
    IF d = 0 THEN Raises("ZeroDivisionError") ELSE Value(<<n * 100, d>>)

RECURSIVE Ratios(_)
\* the percentages of a report, computed in order
Ratios(pairs) ==
    IF pairs = <<>> THEN Value(<<>>)
    ELSE LET r == Divide(Head(pairs)[1], Head(pairs)[2])
             rest == Ratios(Tail(pairs))
         IN IF ~r.ok THEN r
            ELSE IF ~rest.ok THEN rest
            ELSE Value(<<r.v>> \o rest.v)

\* a plausible slip: the ratio is computed whatever the total
Unguarded(total) == TRUE

\* set_of_dois.main: if total_dois_with_duplicates > 0
HasDois(total) == total > 0

\* the share of each label that occurs among n results, hits of them with
\* one label and the others with another
LabelShares(hits, n) ==
    (IF hits > 0 THEN << <<hits, n>> >> ELSE <<>>)
        \o (IF n - hits > 0 THEN << <<n - hits, n>> >> ELSE <<>>)

\* open(args.output, 'w') and the writes inside try / except Exception
GuardedWrite(output) ==
    IF output = "none" THEN <<>>
    ELSE IF output = "writable" THEN <<"open_output", "saved">>
    ELSE <<"open_output", "write_error">>

InitMain ==
    /\ tl_tool \in Tools
    /\ tl_input \in InputStates(tl_tool)
    /\ tl_found \in 0..MaxFound
    /\ tl_hits \in 0..tl_found
    /\ tl_second \in (IF tl_tool \in {"doi_overlap", "springer_crawl"}
                      THEN 0..MaxFound ELSE {0})
    /\ tl_tool = "doi_overlap" => tl_hits <= tl_second
    /\ tl_tool = "springer_crawl" => tl_second <= tl_found
    /\ tl_tool = "set_of_dois" => (tl_found = 0 \/ tl_hits < tl_found)
    /\ tl_input = "missing" => tl_found = 0
    /\ tl_output \in OutputStates(tl_tool)
    /\ tl_trace = <<>> /\ tl_percent = <<>>
    /\ tl_exit = "running" /\ tl_pc = "main"
    /\ FirstIdle /\ TvIdle /\ TpIdle /\ CvIdle /\ RsIdle /\ BtIdle /\ LateIdle

TlOther == <<ct_vars, dn_vars, ov_vars, p_vars, tv_vars, tp_vars, cv_vars,
             rs_vars, bt_vars,
             late_vars>>

\* the program ends: what it has done, the percentages it has computed and
\* its exit status ("0", "1", or the exception nothing caught)
Ended(trace, percent, exit) ==
    /\ tl_trace' = trace
    /\ tl_percent' = percent
    /\ tl_exit' = exit
    /\ tl_pc' = "exit"
    /\ UNCHANGED <<tl_tool, tl_input, tl_found, tl_hits, tl_second, tl_output,
                   TlOther>>

\* doi_overlap.main: tl_found DOIs in the list, tl_second in the
\* bibliography, tl_hits in both
MainDoiOverlap ==
    /\ tl_tool = "doi_overlap" /\ tl_pc = "main"
    /\ IF tl_input # "ok" THEN Ended(<<"error">>, <<>>, "1")
       ELSE IF tl_found = 0 \/ tl_second = 0
       THEN Ended(<<"none_found">>, <<>>, "1")
       ELSE LET r == Ratios(<< <<tl_hits, tl_found>> >>)
            IN IF r.ok THEN Ended(<<"results">>, r.v, "0")
               ELSE Ended(<<>>, <<>>, r.exc)

\* set_of_dois.main: tl_found DOIs counted file by file, tl_hits of them
\* duplicates
MainSetOfDois ==
    /\ tl_tool = "set_of_dois" /\ tl_pc = "main"
    /\ IF tl_input = "missing" THEN Ended(<<"none_found">>, <<>>, "0")
       ELSE LET r == IF HasDois(tl_found)
                     THEN Ratios(<< <<tl_hits, tl_found>> >>)
                     ELSE Value(<<>>)
            IN IF r.ok
               THEN Ended(<<"results">> \o GuardedWrite(tl_output), r.v, "0")
               ELSE Ended(<<"results">>, <<>>, r.exc)

\* set_of_DOIs.main
MainSetOfDOIsRegex ==
    /\ tl_tool = "set_of_DOIs" /\ tl_pc = "main"
    /\ IF tl_input = "missing" THEN Ended(<<"none_found">>, <<>>, "0")
       ELSE Ended(<<"results">> \o GuardedWrite(tl_output), <<>>, "0")

\* check_dois_valid.main: tl_found DOIs, tl_hits of them valid
MainCheckDoisValid ==
    /\ tl_tool = "check_dois_valid" /\ tl_pc = "main"
    /\ IF tl_input # "ok" THEN Ended(<<"error">>, <<>>, "1")
       ELSE IF tl_found = 0 THEN Ended(<<"none_found">>, <<>>, "1")
       ELSE IF tl_output = "unwritable"
       THEN Ended(<<"progress", "open_output">>, <<>>, "OSError")
       ELSE LET r == Ratios(<< <<tl_hits, tl_found>>,
                               <<tl_found - tl_hits, tl_found>> >>)
            IN IF r.ok
               THEN Ended(<<"progress", "open_output", "saved", "results">>,
                          r.v, "0")
               ELSE Ended(<<"progress", "open_output", "saved">>, <<>>, r.exc)

\* find_dois.main: tl_found titles
MainFindDois ==
    /\ tl_tool = "find_dois" /\ tl_pc = "main"
    /\ IF tl_input # "ok" THEN Ended(<<"error">>, <<>>, "1")
       ELSE IF tl_found = 0 THEN Ended(<<"none_found">>, <<>>, "1")
       ELSE IF tl_output = "unwritable"
       THEN Ended(<<"open_output">>, <<>>, "OSError")
       ELSE Ended(<<"open_output", "progress", "saved", "results">>, <<>>, "0")

\* bibtex2csv.main with one file; the CSV goes next to it
MainBibtex2Csv ==
    /\ tl_tool = "bibtex2csv" /\ tl_pc = "main"
    /\ IF tl_input = "missing" THEN Ended(<<"error">>, <<>>, "0")
       ELSE IF tl_output = "unwritable"
       THEN Ended(GuardedWrite(tl_output), <<>>, "0")
       ELSE Ended(GuardedWrite(tl_output) \o <<"results">>, <<>>, "0")

\* tf_idf.main: tl_found documents
MainTfIdf ==
    /\ tl_tool = "tf_idf" /\ tl_pc = "main"
    /\ IF tl_input = "missing" THEN Ended(<<"error">>, <<>>, "0")
       ELSE IF tl_found = 0 THEN Ended(<<"none_found">>, <<>>, "0")
       ELSE IF tl_output = "unwritable"
       THEN Ended(<<"results", "open_output">>, <<>>, "OSError")
       ELSE Ended(<<"results", "open_output", "saved">>, <<>>, "0")

\* topic_frequency.main with a readable topics file: tl_found entries in
\* the bibliography, tl_hits of the topics occurring in them
MainTopicFrequency ==
    /\ tl_tool = "topic_frequency" /\ tl_pc = "main"
    /\ IF tl_input = "missing" THEN Ended(<<"error", "none_found">>, <<>>, "0")
       ELSE IF tl_found = 0 THEN Ended(<<"none_found">>, <<>>, "0")
       ELSE IF tl_hits = 0 THEN Ended(<<"results">>, <<>>, "0")
       ELSE Ended(<<"results">> \o GuardedWrite(tl_output), <<>>, "0")

\* subject_vibe.main: tl_found papers, tl_hits of them given one course and
\* the others another
MainSubjectVibe ==
    /\ tl_tool = "subject_vibe" /\ tl_pc = "main"
    /\ IF tl_input = "missing" THEN Ended(<<"error">>, <<>>, "0")
       ELSE IF tl_found = 0 THEN Ended(<<"none_found">>, <<>>, "0")
       ELSE IF tl_output = "unwritable"
       THEN Ended(<<"progress">> \o GuardedWrite(tl_output), <<>>, "0")
       ELSE LET r == Ratios(LabelShares(tl_hits, tl_found))
            IN IF r.ok
               THEN Ended(<<"progress">> \o GuardedWrite(tl_output)
                              \o <<"results">>, r.v, "0")
               ELSE Ended(<<"progress">> \o GuardedWrite(tl_output)
                              \o <<"write_error">>, <<>>, "0")

\* short_description_and_category.main with a DOI filter that matches:
\* tl_found papers, tl_hits of them given one category
MainShortDescription ==
    /\ tl_tool = "short_description_and_category" /\ tl_pc = "main"
    /\ IF tl_input = "missing" THEN Ended(<<"error">>, <<>>, "0")
       ELSE IF tl_found = 0 THEN Ended(<<"none_found">>, <<>>, "0")
       ELSE LET progress == Ratios([i \in 1..tl_found |-> <<i, tl_found>>])
                shares == Ratios(LabelShares(tl_hits, tl_found))
            IN IF ~progress.ok THEN Ended(<<>>, <<>>, progress.exc)
               ELSE IF tl_output = "unwritable"
               THEN Ended(<<"progress">> \o GuardedWrite(tl_output),
                          progress.v, "0")
               ELSE IF shares.ok
               THEN Ended(<<"progress">> \o GuardedWrite(tl_output)
                              \o <<"results">>, progress.v \o shares.v, "0")
               ELSE Ended(<<"progress">> \o GuardedWrite(tl_output)
                              \o <<"write_error">>, progress.v, "0")

\* springer_crawl.main: tl_found papers crawled, tl_hits of them with a DOI,
\* tl_second with an abstract and as many with authors
MainSpringerCrawl ==
    /\ tl_tool = "springer_crawl" /\ tl_pc = "main"
    /\ IF tl_found = 0 THEN Ended(<<"none_found">>, <<>>, "1")
       ELSE LET r == Ratios(<< <<tl_hits, tl_found>>, <<tl_second, tl_found>>,
                               <<tl_second, tl_found>> >>)
            IN IF r.ok
               THEN Ended(<<"progress", "results">> \o GuardedWrite(tl_output),
                          r.v, "0")
               ELSE Ended(<<"progress">>, <<>>, r.exc)

NextMain ==
    \/ MainDoiOverlap \/ MainSetOfDois \/ MainSetOfDOIsRegex
    \/ MainCheckDoisValid \/ MainFindDois \/ MainBibtex2Csv \/ MainTfIdf
    \/ MainTopicFrequency \/ MainSubjectVibe \/ MainShortDescription
    \/ MainSpringerCrawl

SpecMain == InitMain /\ [][NextMain]_vars

\* ---- C17
\* C17: in every tool, when an input file does not exist or cannot be
\* decoded, an error is printed and the process ends with a non-zero exit
\* status.
C17_UnreadableInputIsFatal ==
    tl_pc = "exit" /\ tl_input \in {"missing", "undecodable"}
        => (tl_exit = "1" /\ "error" \in Range(tl_trace))

\* ---- C18
\* C18: no percentage computation reaches a division by zero, in no tool
\* and for no input; with an empty input the ratio is skipped.
C18_NoDivisionByZero ==
    /\ tl_exit # "ZeroDivisionError"
    /\ \A i \in DOMAIN tl_percent : tl_percent[i][2] > 0
    /\ tl_pc = "exit" /\ tl_found = 0 => tl_percent = <<>>

\* set_of_dois has found no DOI in the files of the directory and has
\* printed its report without the ratio
C18_Witness ==
    /\ tl_tool = "set_of_dois" /\ tl_input = "ok" /\ tl_found = 0
    /\ tl_pc = "exit" /\ tl_exit = "0"
    /\ tl_trace # <<>> /\ Head(tl_trace) = "results" /\ tl_percent = <<>>

\* ---- C19
\* C19: in every tool, a failure to open or write the output file is caught
\* and reported, and does not end the program with an uncaught exception.
C19_WriteFailureIsCaught ==
    tl_pc = "exit" /\ tl_output = "unwritable"
        => /\ tl_exit # "OSError"
           /\ \A i \in DOMAIN tl_trace :
                 tl_trace[i] = "open_output"
                    => (i < Len(tl_trace) /\ tl_trace[i + 1] = "write_error")

(***************************************************************************)
(* check_dois_valid.main under fair scheduling                             *)
(***************************************************************************)
\* the main thread and the pool threads keep running, and every request
\* that was sent is answered
FairValidate ==
    /\ WF_vars(ReadDoiFile) /\ WF_vars(SubmitCall) /\ WF_vars(CollectResult)
    /\ WF_vars(SequentialRequest) /\ WF_vars(SequentialSleep)
    /\ WF_vars(CountResults) /\ WF_vars(WriteCsv) /\ WF_vars(PrintSummary)
    /\ WF_vars(WorkerStart)
    /\ WF_vars(WorkerReturn) /\ WF_vars(SequentialRecord)

SpecValidateLive == InitValidate /\ [][NextValidate]_vars /\ FairValidate

\* ---- C21
\* the batch has started: the DOIs are read and there is at least one
BatchStarted == cv_pc \in {"submit", "loop"}

\* a result for every DOI, in the order of the DOIs
AllCollected ==
    /\ Len(results) = Len(cv_dois)
    /\ \A i \in DOMAIN results : results[i].doi = cv_dois[i]

\* the CSV holds the row of every DOI
OutputWritten == cv_csv = CsvRows(results) /\ Len(cv_csv) = Len(cv_dois)

MaxBibFiles == 2
MaxFileDois == 2

\* lines of a DOI list, values of doi fields, groups the doi pattern captures
DsRaw == {" ", "10.1/a", "10.1/b", "https://doi.org/", "https://doi.org/10.1/a"}
DsFiles == SeqsUpTo(MaxFileDois, DsRaw)

\* doi_overlap.extract_dois_from_file: the line is stripped, its https prefix
\* removed, and what is left is added "if line"
FileDois(lines) == {file_line_doi(l) : l \in Range(lines)} \ {""}

\* short_description_and_category.load_dois_from_file: "if doi" is asked of
\* the stripped line, before a prefix is removed
FilterDois(lines) ==
    {StripCommonPrefixes(Strip(l)) : l \in {x \in Range(lines) : Strip(x) # ""}}

\* extract_dois_from_bibtex of doi_overlap and of set_of_dois: the field is
\* stripped, a prefix removed, and what is left is added "if doi"
BibtexDois(fields) == {bibtex_doi(f) : f \in Range(fields)} \ {""}

\* set_of_DOIs.extract_dois_from_bibtex: every captured group is stripped,
\* its https prefix removed, and what is left is added
RegexDois(groups) == {regex_doi(g) : g \in Range(groups)}

DsTools == {"set_of_dois", "set_of_DOIs", "doi_overlap_file",
            "doi_overlap_bibtex", "short_description"}

RECURSIVE SumOf(_)
\* sum(file_doi_counts.values())
SumOf(q) == IF q = <<>> THEN 0 ELSE Head(q) + SumOf(Tail(q))

\* the entries of a file whose doi field holds a DOI
Occurrences(fields) ==
    Cardinality({i \in DOMAIN fields : bibtex_doi(fields[i]) # ""})

DsOther == <<ct_vars, dn_vars, ov_vars, p_vars, tv_vars, tp_vars, cv_vars,
             rs_vars, bt_vars, tl_vars, sc_vars, fs_vars>>

InitDoiSets ==
    /\ ds_tool \in DsTools
    /\ ds_left \in IF ds_tool = "set_of_dois" THEN 0..MaxBibFiles ELSE {1}
    /\ ds_file = <<>> /\ ds_dois = {} /\ all_dois = {}
    /\ file_doi_counts = <<>> /\ ds_seen = {} /\ ds_occurrences = 0
    /\ total_dois_with_duplicates = 0 /\ duplicate_count = 0
    /\ ds_pc = "start"
    /\ FirstIdle /\ TvIdle /\ TpIdle /\ CvIdle /\ RsIdle /\ BtIdle /\ TlIdle
    /\ ScIdle /\ FsIdle

\* doi_overlap.extract_dois_from_file is called on a DOI list
CallExtractDoisFromFile ==
    /\ ds_pc = "start" /\ ds_tool = "doi_overlap_file"
    /\ \E file \in DsFiles :
          /\ ds_file' = file
          /\ ds_dois' = FileDois(file)
          /\ ds_seen' = Range(file)
    /\ ds_left' = 0
    /\ ds_pc' = "returned"
    /\ UNCHANGED <<ds_tool, all_dois, file_doi_counts, ds_occurrences,
                   total_dois_with_duplicates, duplicate_count, DsOther>>

\* short_description_and_category.load_dois_from_file is called on a DOI list
CallLoadDoisFromFile ==
    /\ ds_pc = "start" /\ ds_tool = "short_description"
    /\ \E file \in DsFiles :
          /\ ds_file' = file
          /\ ds_dois' = FilterDois(file)
          /\ ds_seen' = Range(file)
    /\ ds_left' = 0
    /\ ds_pc' = "returned"
    /\ UNCHANGED <<ds_tool, all_dois, file_doi_counts, ds_occurrences,
                   total_dois_with_duplicates, duplicate_count, DsOther>>

\* doi_overlap.extract_dois_from_bibtex is called on a bibliography
CallExtractDoisFromBibtex ==
    /\ ds_pc = "start" /\ ds_tool = "doi_overlap_bibtex"
    /\ \E file \in DsFiles :
          /\ ds_file' = file
          /\ ds_dois' = BibtexDois(file)
          /\ ds_seen' = Range(file)
    /\ ds_left' = 0
    /\ ds_pc' = "returned"
    /\ UNCHANGED <<ds_tool, all_dois, file_doi_counts, ds_occurrences,
                   total_dois_with_duplicates, duplicate_count, DsOther>>

\* set_of_DOIs.extract_dois_from_bibtex is called on a bibliography
CallRegexExtract ==
    /\ ds_pc = "start" /\ ds_tool = "set_of_DOIs"
    /\ \E file \in DsFiles :
          /\ ds_file' = file
          /\ ds_dois' = RegexDois(file)
          /\ ds_seen' = Range(file)
    /\ ds_left' = 0
    /\ ds_pc' = "returned"
    /\ UNCHANGED <<ds_tool, all_dois, file_doi_counts, ds_occurrences,
                   total_dois_with_duplicates, duplicate_count, DsOther>>

\* set_of_dois.main: the directory holds no .bib file
SetOfDoisNoFiles ==
    /\ ds_pc = "start" /\ ds_tool = "set_of_dois" /\ ds_left = 0
    /\ ds_pc' = "exit"
    /\ UNCHANGED <<ds_tool, ds_left, ds_file, ds_dois, all_dois,
                   file_doi_counts, ds_seen, ds_occurrences,
                   total_dois_with_duplicates, duplicate_count, DsOther>>

\* set_of_dois.main: the body of "for bib_file in bibtex_files", once
SetOfDoisFile ==
    /\ ds_pc \in {"start", "loop"} /\ ds_tool = "set_of_dois" /\ ds_left > 0
    /\ \E file \in DsFiles :
          /\ ds_file' = file
          /\ ds_dois' = BibtexDois(file)
          /\ ds_seen' = ds_seen \cup Range(file)
          /\ ds_occurrences' = ds_occurrences + Occurrences(file)
    /\ file_doi_counts' = Append(file_doi_counts, Cardinality(ds_dois'))
    /\ all_dois' = all_dois \cup ds_dois'
    /\ ds_left' = ds_left - 1
    /\ ds_pc' = "loop"
    /\ UNCHANGED <<ds_tool, total_dois_with_duplicates, duplicate_count,
                   DsOther>>

\* set_of_dois.main: the statistics printed after the loop
SetOfDoisReport ==
    /\ ds_pc = "loop" /\ ds_tool = "set_of_dois" /\ ds_left = 0
    /\ total_dois_with_duplicates' = SumOf(file_doi_counts)
    /\ duplicate_count' =
          IF total_dois_with_duplicates' > 0
          THEN total_dois_with_duplicates' - Cardinality(all_dois)
          ELSE duplicate_count
    /\ ds_pc' = "reported"
    /\ UNCHANGED <<ds_tool, ds_left, ds_file, ds_dois, all_dois,
                   file_doi_counts, ds_seen, ds_occurrences, DsOther>>

NextDoiSets ==
    \/ CallExtractDoisFromFile
    \/ CallLoadDoisFromFile
    \/ CallExtractDoisFromBibtex
    \/ CallRegexExtract
    \/ SetOfDoisNoFiles
    \/ SetOfDoisFile
    \/ SetOfDoisReport

SpecDoiSets == InitDoiSets /\ [][NextDoiSets]_vars

\* C22: in the report of set_of_dois the unique DOIs are the union of the
\* DOIs of all processed files, the total with duplicates is the number of
\* DOI occurrences found in the files before deduplication, and the
\* duplicate count is the total minus the unique count and is not negative.
C22_DedupStatistics ==
    (ds_tool = "set_of_dois" /\ ds_pc = "reported") =>
        /\ all_dois = {bibtex_doi(f) : f \in ds_seen} \ {""}
        /\ total_dois_with_duplicates = ds_occurrences
        /\ duplicate_count =
              total_dois_with_duplicates - Cardinality(all_dois)
        /\ duplicate_count >= 0

\* C28: no DOI set a builder returns, and no union of such sets, holds the
\* empty string.
C28_NoEmptyDoi == "" \notin ds_dois /\ "" \notin all_dois

(***************************************************************************)
(* The field pattern, applied to one field as each parser applies it       *)
(***************************************************************************)
MaxValuePieces == 3
ValuePieces == {"a", " ", "{b}", "}", "\"", "\n"}
FieldValues == ConcatsUpTo(MaxValuePieces, ValuePieces)
\* the field name with its "=", and the name the pattern spells
WrittenNames == {<<"doi=", "doi">>, <<"Title = ", "title">>,
                 <<"abstract =", "abstract">>}

\* the text of the field in the file
FieldText(written, opener, value, closer) ==
    written \o opener \o value \o closer \o ","

RECURSIVE SplitLines(_)
\* for line in f: the text of every line without its line end
SplitLines(text) ==
    LET e == FindIn(text, 1, {"\n"})
    IN IF e > Len(text) THEN <<text>>
       ELSE <<Sub(text, 1, e - 1)>> \o SplitLines(Slice(text, e))

RECURSIVE LastMatch(_, _, _)
\* tf_idf.extract_text_from_bibtex: the pattern is searched in every stripped
\* line, and a later match replaces an earlier one
LastMatch(lines, name, found) ==
    IF lines = <<>> THEN found
    ELSE LET m == FieldSearch(Strip(Head(lines)), name, "none")
         IN LastMatch(Tail(lines), name, IF m # <<>> THEN m ELSE found)

\* subject_vibe.extract_papers_from_bibtex: the pattern is searched in the
\* whole entry, behind \b for every field but doi
BlockGuard(name) == IF name = "doi" THEN "none" ELSE "b"

FsOther == <<ct_vars, dn_vars, ov_vars, p_vars, tv_vars, tp_vars, cv_vars,
             rs_vars, bt_vars, tl_vars, ds_vars, sc_vars>>

InitField ==
    /\ fs_tool \in {"subject_vibe", "tf_idf"}
    /\ fs_written \in WrittenNames
    /\ fs_opener \in {"{", "\""}
    /\ fs_value \in FieldValues
    /\ fs_closer \in {"}", "\""}
    /\ fs_match = <<>>
    /\ fs_pc = "start"
    /\ FirstIdle /\ TvIdle /\ TpIdle /\ CvIdle /\ RsIdle /\ BtIdle /\ TlIdle
    /\ DsIdle /\ ScIdle

\* subject_vibe searches the entry that holds the field
SearchBlock ==
    /\ fs_pc = "start" /\ fs_tool = "subject_vibe"
    /\ fs_match' =
          FieldSearch(FieldText(fs_written[1], fs_opener, fs_value, fs_closer),
                      fs_written[2], BlockGuard(fs_written[2]))
    /\ fs_pc' = "searched"
    /\ UNCHANGED <<fs_tool, fs_written, fs_opener, fs_value, fs_closer, FsOther>>

\* tf_idf searches the lines that hold the field, one after the other
SearchLines ==
    /\ fs_pc = "start" /\ fs_tool = "tf_idf"
    /\ fs_match' =
          LastMatch(SplitLines(FieldText(fs_written[1], fs_opener, fs_value,
                                         fs_closer)),
                    fs_written[2], <<>>)
    /\ fs_pc' = "searched"
    /\ UNCHANGED <<fs_tool, fs_written, fs_opener, fs_value, fs_closer, FsOther>>

NextField == SearchBlock \/ SearchLines

SpecField == InitField /\ [][NextField]_vars

\* the text after the opening delimiter up to the first closing brace or
\* double quote
UpToFirstCloser ==
    LET body == fs_value \o fs_closer
    IN Sub(body, 1, FindIn(body, 1, {"}", "\""}) - 1)

\* the capture the truncation rule gives: none for an empty text
Truncated == IF UpToFirstCloser = "" THEN <<>> ELSE <<UpToFirstCloser>>

HasLineBreak(s) == FindIn(s, 1, {"\n"}) <= Len(s)

\* C23 as stated: whatever the value, the parser captures the text from the
\* opening delimiter up to the first closing brace or double quote, and
\* detects no field when that text is empty.
C23_TruncationAsClaimed == fs_pc = "searched" => fs_match = Truncated

\* C23: subject_vibe, which searches the whole entry, captures the text from
\* the opening delimiter up to the first closing brace or double quote and
\* detects no field when that text is empty; tf_idf, which searches line by
\* line, does the same when that text holds no line break and detects no
\* field when it does.
C23_Truncation ==
    fs_pc = "searched" =>
        IF fs_tool = "tf_idf" /\ HasLineBreak(UpToFirstCloser)
        THEN fs_match = <<>>
        ELSE fs_match = Truncated

\* C23 witness: a value with an inner closing brace has been captured up to
\* that brace only.
C23_Witness ==
    /\ fs_pc = "searched"
    /\ fs_opener = "{" /\ fs_closer = "}"
    /\ fs_value = "a{b}a"
    /\ fs_match = <<"a{b">>

(***************************************************************************)
(* springer_crawl.SpringerCrawler.crawl_pages                              *)
(***************************************************************************)
MaxCrawlPages == 2
MaxFeedItems == 2
PageSize == 20

\* what an item of a feed turns out to be: extract_paper_info returns a
\* paper, returns None (title or doi missing), or raises
ItemKinds == {"paper", "skipped", "broken"}
Failed(why) == [kind |-> why, items |-> <<>>]
Feed(items) == [kind |-> "rss", items |-> items]
\* what a page request brings back
PageOutcomes ==
    {Failed("network_error"), Failed("http_error"), Failed("html"),
     Failed("parse_error")}
        \cup {Feed(items) : items \in SeqsUpTo(MaxFeedItems, ItemKinds)}

RECURSIVE PapersFrom(_, _, _)
\* the loop over the items of a feed: the papers, each named by its page
\* and its place in the feed
PapersFrom(items, page, i) ==
    IF i > Len(items) THEN <<>>
    ELSE (IF items[i] = "paper" THEN <<<<page, i>>>> ELSE <<>>)
            \o PapersFrom(items, page, i + 1)

\* parse_rss_feed(url, page_num): the empty list for a failed request, an
\* HTML answer, XML that does not parse and a feed without items
parse_rss_feed(outcome, page) ==
    IF outcome.kind # "rss" THEN <<>> ELSE PapersFrom(outcome.items, page, 1)

\* a plausible slip: the offset is that of the page after
NextPageOffset(page) == page * PageSize

\* start_offset = (page_num - 1) * 20
StartOffset(page) == (page - 1) * PageSize

\* build_page_url(page_num): the pagination parameter of the URL
build_page_url(base, page) ==
    IF page > 1
    THEN IF base = "new-search" THEN <<"page", page>>
         ELSE <<"start", StartOffset(page)>>
    ELSE <<>>

RECURSIVE Flatten(_)
Flatten(lists) ==
    IF lists = <<>> THEN <<>> ELSE Head(lists) \o Flatten(Tail(lists))

ScOther == <<ct_vars, dn_vars, ov_vars, p_vars, tv_vars, tp_vars, cv_vars,
             rs_vars, bt_vars, tl_vars, ds_vars, fs_vars>>

InitCrawl ==
    /\ sc_base \in {"new-search", "rss"}
    /\ max_pages \in -1..MaxCrawlPages
    /\ sc_delay \in Delays
    /\ page_num = 0
    /\ sc_requested = <<>> /\ sc_fetched = <<>> /\ all_papers = <<>>
    /\ sc_sleeps = 0 /\ sc_result = <<>>
    /\ sc_pc = "loop"
    /\ FirstIdle /\ TvIdle /\ TpIdle /\ CvIdle /\ RsIdle /\ BtIdle /\ TlIdle
    /\ DsIdle /\ FsIdle

\* for page_num in range(1, max_pages + 1): the URL of the next page is
\* built and requested
CrawlRequest ==
    /\ sc_pc = "loop" /\ page_num < max_pages
    /\ page_num' = page_num + 1
    /\ sc_requested' = Append(sc_requested, build_page_url(sc_base, page_num'))
    /\ sc_pc' = "wait"
    /\ UNCHANGED <<sc_base, max_pages, sc_delay, sc_fetched, all_papers,
                   sc_sleeps, sc_result, ScOther>>

\* the request is answered or fails, within its timeout: parse_rss_feed
\* returns; the loop breaks on an empty list and extends all_papers otherwise
CrawlResponse ==
    /\ sc_pc = "wait"
    /\ \E outcome \in PageOutcomes :
          LET page_papers == parse_rss_feed(outcome, page_num)
          IN /\ sc_fetched' = Append(sc_fetched, page_papers)
             /\ all_papers' = all_papers \o page_papers
             /\ sc_pc' = IF page_papers = <<>> THEN "finish"
                         ELSE IF page_num < max_pages THEN "sleep"
                         ELSE "loop"
    /\ UNCHANGED <<sc_base, max_pages, sc_delay, page_num, sc_requested,
                   sc_sleeps, sc_result, ScOther>>

\* time.sleep(self.delay), which raises ValueError for a negative delay
CrawlSleep ==
    /\ sc_pc = "sleep"
    /\ IF sc_delay < 0
       THEN /\ sc_result' = <<"ValueError">>
            /\ sc_pc' = "raised"
            /\ UNCHANGED sc_sleeps
       ELSE /\ sc_sleeps' = sc_sleeps + 1
            /\ sc_pc' = "loop"
            /\ UNCHANGED sc_result
    /\ UNCHANGED <<sc_base, max_pages, sc_delay, page_num, sc_requested,
                   sc_fetched, all_papers, ScOther>>

\* the range is exhausted
CrawlLoopEnd ==
    /\ sc_pc = "loop" /\ page_num >= max_pages
    /\ sc_pc' = "finish"
    /\ UNCHANGED <<sc_base, max_pages, sc_delay, page_num, sc_requested,
                   sc_fetched, all_papers, sc_sleeps, sc_result, ScOther>>

\* return all_papers
CrawlReturn ==
    /\ sc_pc = "finish"
    /\ sc_result' = <<"returned", all_papers>>
    /\ sc_pc' = "returned"
    /\ UNCHANGED <<sc_base, max_pages, sc_delay, page_num, sc_requested,
                   sc_fetched, all_papers, sc_sleeps, ScOther>>

NextCrawl ==
    \/ CrawlRequest
    \/ CrawlResponse
    \/ CrawlSleep
    \/ CrawlLoopEnd
    \/ CrawlReturn

\* the thread of crawl_pages runs, and every request ends within its timeout
FairCrawl ==
    /\ WF_vars(CrawlRequest) /\ WF_vars(CrawlResponse) /\ WF_vars(CrawlSleep)
    /\ WF_vars(CrawlLoopEnd) /\ WF_vars(CrawlReturn)

SpecCrawl == InitCrawl /\ [][NextCrawl]_vars
SpecCrawlLive == SpecCrawl /\ FairCrawl

\* the pages are requested in the order 1, 2, ..., at most max_pages of
\* them, and none after a page without papers
PagesInOrder ==
    /\ \A i \in DOMAIN sc_requested :
          sc_requested[i] =
             IF i = 1 THEN <<>>
             ELSE IF sc_base = "new-search" THEN <<"page", i>>
             ELSE <<"start", PageSize * (i - 1)>>
    /\ \A i, j \in DOMAIN sc_requested : i < j => sc_requested[i] # sc_requested[j]
    /\ Len(sc_requested) <= max_pages \/ sc_requested = <<>>
    /\ \A i \in DOMAIN sc_fetched :
          sc_fetched[i] = <<>> => Len(sc_requested) = i

\* crawl_pages has stopped at the first page without papers or after
\* max_pages pages, and returns the papers of the fetched pages in page order
StoppedAsClaimed ==
    sc_pc \in {"returned", "raised"} =>
        /\ sc_pc = "returned"
        /\ sc_result = <<"returned", Flatten(sc_fetched)>>
        /\ Len(sc_fetched) = Len(sc_requested)
        /\ \/ sc_fetched # <<>> /\ sc_fetched[Len(sc_fetched)] = <<>>
           \/ Len(sc_requested) = max_pages
           \/ max_pages <= 0 /\ sc_requested = <<>>

\* C30: crawl_pages requests the pages 1, 2, ... in increasing order, stops
\* at the first page without papers or after max_pages pages, requests no
\* page after one without papers, always terminates, and returns the papers
\* of the fetched pages in page order.
C30_Pagination ==
    /\ [](PagesInOrder /\ StoppedAsClaimed)
    /\ <>(sc_pc = "returned")

\* what holds of every crawl: the order of the pages and the end of the
\* run, which is the return of the papers unless a negative delay makes
\* the sleep after a page raise
CrawlEnds ==
    /\ []PagesInOrder
    /\ [](sc_delay >= 0 => StoppedAsClaimed)
    /\ <>(sc_pc \in {"returned", "raised"})
    /\ (sc_delay >= 0) ~> (sc_pc = "returned")

====
